---- MODULE Spec2Model ----
(***************************************************************************)
(* MiniMart-MS synthetic data generators: scripts/generate_history_v3.py,  *)
(* scripts/generate_history_v2.py and scripts/generate_suppliers.py.       *)
(*                                                                         *)
(* Conventions of the model                                                *)
(*   - a datetime at midnight is the number of days since 2024-01-01       *)
(*     (START_DATE is day 0, a Monday);                                    *)
(*   - money is an integer number of centavos (every catalog price has at  *)
(*     most two decimals and every price the scripts emit is rounded to    *)
(*     two decimals), arithmetic on it is exact decimal arithmetic;        *)
(*   - a float multiplier is an integer numerator over a fixed scale that  *)
(*     is named next to it;                                                *)
(*   - a call of random.* is a nondeterministic choice (\E) over the       *)
(*     values the call can return, sampled by Ends where the range is      *)
(*     large.                                                              *)
(***************************************************************************)
EXTENDS Integers, Sequences, FiniteSets, TLC

VARIABLES
    \* ---- generate_history_v3: price path of generate_all_sales
    current_date,      \* generate_all_sales: current_date (days since START_DATE)
    row_prev,          \* an earlier emitted sales row, price fields only
    row_cur,           \* the latest emitted sales row, price fields only
    batch_cost,        \* generate_suppliers: the batch received in this iteration of the date loop (cost fields)
    \* ---- generate_history_v3: generate_daily_transactions for current_date
    all_campaigns,     \* generate_all_sales: all_campaigns
    all_promos,
    all_holidays,
    pc,                \* where the generation of the day stands
    seasonality,       \* get_daily_transaction_count: seasonality (twentieths)
    target_transactions,
    tx_counter,
    profile,           \* get_products_for_profile: profile
    num_items,
    attempts,
    selected_items,
    current_total,     \* centavos
    last_pass,         \* the draws and the outcome of the latest pass of the selection loop
    rows,              \* the rows the transaction in hand has appended to transactions
    tx_total,
    tx_cost,
    \* ---- generate_history_v3: the loop over the years and export_events_csv
    cur_year,          \* generate_all_sales: year of "for year in years"
    events_log,        \* export_events_csv: events, as written to the file
    \* ---- generate_history_v2: generate_all_sales
    product_pos,       \* position of "for product in PRODUCTS"
    sale,              \* the latest result of generate_daily_sales, with its locals
    sale_twin,         \* a second evaluation of the same call under other random draws
    all_sales_len,     \* generate_all_sales of generate_history_v2: len(all_sales)
    \* ---- generate_suppliers: generate_batches_and_returns
    next_restock_date, \* next_restock_date, for the products the model follows
    sup_pos,           \* position of "for product in PRODUCTS" among those products
    batch_id,
    return_id,
    received,          \* per product, the received_date of its batches in `batches`, in order
    batch,             \* the latest InventoryBatch appended to `batches`
    return_record,     \* the latest StockMovementReturn appended to `returns`
    \* ---- print_summary_stats of generate_history_v3 and generate_history_v2
    sales,             \* print_summary_stats: sales
    summary            \* what the call printed, or the exception that ended it

vars == <<current_date, row_prev, row_cur, batch_cost, all_campaigns, all_promos, all_holidays,
          pc, seasonality, target_transactions, tx_counter, profile, num_items,
          attempts, selected_items, current_total, last_pass, rows, tx_total, tx_cost,
          cur_year, events_log, product_pos, sale, sale_twin, all_sales_len,
          next_restock_date, sup_pos, batch_id, return_id, received, batch, return_record,
          sales, summary>>

eventvars == <<cur_year, events_log>>

v2vars == <<product_pos, sale, sale_twin, all_sales_len>>

supvars == <<next_restock_date, sup_pos, batch_id, return_id, received, batch, return_record>>

statvars == <<sales, summary>>

\* no row, no batch
NoRow == [date |-> -1]

-----------------------------------------------------------------------------
(* Bounds of the model *)

\* days of the date loop that the price path follows
MaxDay == 20

\* how many entries of SampleIdx the model's random.choice draws from
NumDrawn == 5

\* how many entries of V3Dates the model generates a day for
NumDates == 2

\* how many draw tapes of the event generators the model takes events from
NumTapes == 2

\* passes of the selection loop that are followed per transaction
MaxAttempts == 2

\* transactions of a day that are followed
MaxTx == 1

\* END_DATE.year (END_DATE is datetime.now() where it is not a literal)
EndYear == 2024

\* days of the date loop of generate_suppliers the model follows
MaxSupDay == 32

\* END_DATE of generate_suppliers, in days after START_DATE
SupEndDay == 60

\* rows in a list passed to print_summary_stats
MaxSales == 2

\* how many entries of StatRows the lists are built from
NumStatRows == 7

-----------------------------------------------------------------------------
(* Calendar: datetime(y, m, d) <-> days since START_DATE *)

START_YEAR == 2024

IsLeap(y) == (y % 4 = 0 /\ y % 100 # 0) \/ y % 400 = 0

DaysInYear(y) == IF IsLeap(y) THEN 366 ELSE 365

DaysInMonth(y, m) ==
    IF m = 2 THEN (IF IsLeap(y) THEN 29 ELSE 28)
    ELSE IF m \in {4, 6, 9, 11} THEN 30 ELSE 31

RECURSIVE DaysBeforeYear(_)
DaysBeforeYear(y) ==
    IF y <= START_YEAR THEN 0 ELSE DaysBeforeYear(y - 1) + DaysInYear(y - 1)

RECURSIVE DaysBeforeMonth(_, _)
DaysBeforeMonth(y, m) ==
    IF m <= 1 THEN 0 ELSE DaysBeforeMonth(y, m - 1) + DaysInMonth(y, m - 1)

\* datetime(y, m, d)
datetime(y, m, d) == DaysBeforeYear(y) + DaysBeforeMonth(y, m) + (d - 1)

\* date.year, date.month, date.day, date.weekday() (Monday = 0)
YearOf(date) ==
    CHOOSE y \in START_YEAR..(START_YEAR + 4) :
        DaysBeforeYear(y) <= date /\ date < DaysBeforeYear(y) + DaysInYear(y)

MonthOf(date) ==
    LET y == YearOf(date)
        r == date - DaysBeforeYear(y)
    IN  CHOOSE m \in 1..12 :
            DaysBeforeMonth(y, m) <= r /\ r < DaysBeforeMonth(y, m) + DaysInMonth(y, m)

DayOf(date) ==
    LET y == YearOf(date)
    IN  date - DaysBeforeYear(y) - DaysBeforeMonth(y, MonthOf(date)) + 1

WeekdayOf(date) == date % 7

\* START_DATE = datetime(2024, 1, 1) in generate_history_v3 and generate_suppliers
START_DATE == datetime(2024, 1, 1)

-----------------------------------------------------------------------------
(* Arithmetic helpers *)

Max(a, b) == IF a >= b THEN a ELSE b
Min(a, b) == IF a <= b THEN a ELSE b

\* round(n / d) to the nearest integer, ties to even: Python's round(x, 2) on
\* an amount n / d of centavos (n >= 0, d > 0)
RoundDiv(n, d) ==
    LET q == n \div d
        r == n % d
    IN  IF 2 * r < d THEN q
        ELSE IF 2 * r > d THEN q + 1
        ELSE IF q % 2 = 0 THEN q ELSE q + 1

\* int(n / d): truncation toward zero (d > 0)
TruncDiv(n, d) == IF n >= 0 THEN n \div d ELSE -((-n) \div d)

-----------------------------------------------------------------------------
(* generate_history_v3: catalog *)

\* PRODUCTS of generate_history_v3, in source order; prices in centavos,
\* p.get("wholesale_only", False), p.get("never_sell", False) and
\* int(p.get("hero_boost", 1)) filled in
PRODUCTS == <<
    [barcode |-> "544900000099", brand |-> "Coca-Cola", category |-> "SODA", base_retail |-> 2000, base_cost |-> 1800, wholesale_only |-> FALSE, never_sell |-> FALSE, hero_boost |-> 1],
    [barcode |-> "480198112005", brand |-> "Coca-Cola", category |-> "SODA", base_retail |-> 2500, base_cost |-> 2250, wholesale_only |-> FALSE, never_sell |-> FALSE, hero_boost |-> 1],
    [barcode |-> "480198112010", brand |-> "Coca-Cola", category |-> "SODA", base_retail |-> 2500, base_cost |-> 2250, wholesale_only |-> FALSE, never_sell |-> FALSE, hero_boost |-> 1],
    [barcode |-> "480198112000", brand |-> "Coca-Cola", category |-> "SODA", base_retail |-> 2500, base_cost |-> 2250, wholesale_only |-> FALSE, never_sell |-> FALSE, hero_boost |-> 1],
    [barcode |-> "480392525114", brand |-> "Pepsi", category |-> "SODA", base_retail |-> 2200, base_cost |-> 2000, wholesale_only |-> FALSE, never_sell |-> FALSE, hero_boost |-> 1],
    [barcode |-> "480392525110", brand |-> "Pepsi", category |-> "SODA", base_retail |-> 2200, base_cost |-> 2000, wholesale_only |-> FALSE, never_sell |-> FALSE, hero_boost |-> 1],
    [barcode |-> "480198111607", brand |-> "Coca-Cola", category |-> "SODA", base_retail |-> 6000, base_cost |-> 5400, wholesale_only |-> FALSE, never_sell |-> FALSE, hero_boost |-> 1],
    [barcode |-> "480198118062", brand |-> "Coca-Cola", category |-> "SODA", base_retail |-> 6000, base_cost |-> 5400, wholesale_only |-> FALSE, never_sell |-> FALSE, hero_boost |-> 1],
    [barcode |-> "480191198062", brand |-> "Coca-Cola", category |-> "SODA", base_retail |-> 6000, base_cost |-> 5400, wholesale_only |-> FALSE, never_sell |-> FALSE, hero_boost |-> 1],
    [barcode |-> "480392515114", brand |-> "Pepsi", category |-> "SODA", base_retail |-> 5500, base_cost |-> 5000, wholesale_only |-> FALSE, never_sell |-> FALSE, hero_boost |-> 1],
    [barcode |-> "480392515110", brand |-> "Pepsi", category |-> "SODA", base_retail |-> 5500, base_cost |-> 5000, wholesale_only |-> FALSE, never_sell |-> FALSE, hero_boost |-> 1],
    [barcode |-> "480198111664", brand |-> "Coca-Cola", category |-> "SODA", base_retail |-> 6000, base_cost |-> 5400, wholesale_only |-> FALSE, never_sell |-> FALSE, hero_boost |-> 1],
    [barcode |-> "480392515112", brand |-> "Pepsi", category |-> "SODA", base_retail |-> 5500, base_cost |-> 5000, wholesale_only |-> FALSE, never_sell |-> FALSE, hero_boost |-> 1],
    [barcode |-> "480198109722", brand |-> "Coca-Cola", category |-> "SODA", base_retail |-> 6000, base_cost |-> 5400, wholesale_only |-> FALSE, never_sell |-> FALSE, hero_boost |-> 1],
    [barcode |-> "480392515116", brand |-> "Pepsi", category |-> "SODA", base_retail |-> 6000, base_cost |-> 5400, wholesale_only |-> FALSE, never_sell |-> FALSE, hero_boost |-> 1],
    [barcode |-> "480198111696", brand |-> "Coca-Cola", category |-> "SODA", base_retail |-> 6500, base_cost |-> 5850, wholesale_only |-> FALSE, never_sell |-> FALSE, hero_boost |-> 1],
    [barcode |-> "480198112717", brand |-> "Coca-Cola", category |-> "SOFTDRINKS_CASE", base_retail |-> 12500, base_cost |-> 11200, wholesale_only |-> TRUE, never_sell |-> FALSE, hero_boost |-> 1],
    [barcode |-> "480198112720", brand |-> "Coca-Cola", category |-> "SOFTDRINKS_CASE", base_retail |-> 12500, base_cost |-> 11200, wholesale_only |-> TRUE, never_sell |-> FALSE, hero_boost |-> 1],
    [barcode |-> "480198102719", brand |-> "Coca-Cola", category |-> "SOFTDRINKS_CASE", base_retail |-> 12500, base_cost |-> 11200, wholesale_only |-> TRUE, never_sell |-> FALSE, hero_boost |-> 1],
    [barcode |-> "480392513032", brand |-> "Pepsi", category |-> "SOFTDRINKS_CASE", base_retail |-> 20000, base_cost |-> 18000, wholesale_only |-> TRUE, never_sell |-> FALSE, hero_boost |-> 1],
    [barcode |-> "480374937310", brand |-> "Coca-Cola", category |-> "SOFTDRINKS_CASE", base_retail |-> 35000, base_cost |-> 31500, wholesale_only |-> TRUE, never_sell |-> FALSE, hero_boost |-> 1],
    [barcode |-> "480611352020", brand |-> "Coca-Cola", category |-> "SOFTDRINKS_CASE", base_retail |-> 14100, base_cost |-> 12700, wholesale_only |-> TRUE, never_sell |-> FALSE, hero_boost |-> 1],
    [barcode |-> "480732471900", brand |-> "Coca-Cola", category |-> "SOFTDRINKS_CASE", base_retail |-> 35000, base_cost |-> 31500, wholesale_only |-> TRUE, never_sell |-> FALSE, hero_boost |-> 1],
    [barcode |-> "542353276241", brand |-> "Coca-Cola", category |-> "SOFTDRINKS_CASE", base_retail |-> 35000, base_cost |-> 31500, wholesale_only |-> TRUE, never_sell |-> FALSE, hero_boost |-> 1],
    [barcode |-> "955600121722", brand |-> "Nestle", category |-> "BEVERAGES", base_retail |-> 1200, base_cost |-> 1050, wholesale_only |-> FALSE, never_sell |-> FALSE, hero_boost |-> 1],
    [barcode |-> "480036141081", brand |-> "Nestle", category |-> "BEVERAGES", base_retail |-> 1150, base_cost |-> 1000, wholesale_only |-> FALSE, never_sell |-> FALSE, hero_boost |-> 1],
    [barcode |-> "480864731007", brand |-> "Tang", category |-> "BEVERAGES", base_retail |-> 21600, base_cost |-> 19500, wholesale_only |-> FALSE, never_sell |-> FALSE, hero_boost |-> 1],
    [barcode |-> "965412919731", brand |-> "Energen", category |-> "BEVERAGES", base_retail |-> 900, base_cost |-> 800, wholesale_only |-> FALSE, never_sell |-> FALSE, hero_boost |-> 1],
    [barcode |-> "965412919613", brand |-> "Energen", category |-> "BEVERAGES", base_retail |-> 860, base_cost |-> 750, wholesale_only |-> FALSE, never_sell |-> FALSE, hero_boost |-> 1],
    [barcode |-> "489120804013", brand |-> "Oishi", category |-> "SNACK", base_retail |-> 1760, base_cost |-> 1550, wholesale_only |-> FALSE, never_sell |-> FALSE, hero_boost |-> 1],
    [barcode |-> "893921341445", brand |-> "M.Y. San", category |-> "SNACK", base_retail |-> 5840, base_cost |-> 5250, wholesale_only |-> FALSE, never_sell |-> FALSE, hero_boost |-> 1],
    [barcode |-> "893951811445", brand |-> "Rebisco", category |-> "SNACK", base_retail |-> 6020, base_cost |-> 5400, wholesale_only |-> FALSE, never_sell |-> FALSE, hero_boost |-> 1],
    [barcode |-> "748485200019", brand |-> "555", category |-> "CANNED_GOODS", base_retail |-> 2500, base_cost |-> 2200, wholesale_only |-> FALSE, never_sell |-> FALSE, hero_boost |-> 1],
    [barcode |-> "748485800035", brand |-> "Argentina", category |-> "CANNED_GOODS", base_retail |-> 5750, base_cost |-> 5200, wholesale_only |-> FALSE, never_sell |-> FALSE, hero_boost |-> 1],
    [barcode |-> "480002201028", brand |-> "Hunts", category |-> "CANNED_GOODS", base_retail |-> 1450, base_cost |-> 1300, wholesale_only |-> FALSE, never_sell |-> FALSE, hero_boost |-> 1],
    [barcode |-> "480057511015", brand |-> "Alaska", category |-> "DAIRY", base_retail |-> 2820, base_cost |-> 2550, wholesale_only |-> FALSE, never_sell |-> FALSE, hero_boost |-> 1],
    [barcode |-> "480057513016", brand |-> "Alaska", category |-> "DAIRY", base_retail |-> 3900, base_cost |-> 3500, wholesale_only |-> FALSE, never_sell |-> FALSE, hero_boost |-> 1],
    [barcode |-> "480864702009", brand |-> "Mondelez", category |-> "DAIRY", base_retail |-> 7800, base_cost |-> 7000, wholesale_only |-> FALSE, never_sell |-> FALSE, hero_boost |-> 1],
    [barcode |-> "480535824701", brand |-> "Dari Creme", category |-> "DAIRY", base_retail |-> 4100, base_cost |-> 3700, wholesale_only |-> FALSE, never_sell |-> FALSE, hero_boost |-> 1],
    [barcode |-> "000008586780", brand |-> "Datu Puti", category |-> "CONDIMENTS", base_retail |-> 8085, base_cost |-> 7300, wholesale_only |-> FALSE, never_sell |-> FALSE, hero_boost |-> 1],
    [barcode |-> "642611907726", brand |-> "Ajinomoto", category |-> "CONDIMENTS", base_retail |-> 1300, base_cost |-> 1150, wholesale_only |-> FALSE, never_sell |-> FALSE, hero_boost |-> 1],
    [barcode |-> "642647382226", brand |-> "Sisters", category |-> "PERSONAL_CARE", base_retail |-> 4450, base_cost |-> 4000, wholesale_only |-> FALSE, never_sell |-> FALSE, hero_boost |-> 1],
    [barcode |-> "642321541122", brand |-> "Sisters", category |-> "PERSONAL_CARE", base_retail |-> 11700, base_cost |-> 10500, wholesale_only |-> FALSE, never_sell |-> FALSE, hero_boost |-> 1],
    [barcode |-> "672329634182", brand |-> "Whisper", category |-> "PERSONAL_CARE", base_retail |-> 12800, base_cost |-> 11500, wholesale_only |-> FALSE, never_sell |-> FALSE, hero_boost |-> 1],
    [barcode |-> "480088814685", brand |-> "Sunsilk", category |-> "PERSONAL_CARE", base_retail |-> 15000, base_cost |-> 13500, wholesale_only |-> FALSE, never_sell |-> FALSE, hero_boost |-> 1],
    [barcode |-> "870021639476", brand |-> "Downy", category |-> "HOUSEHOLD", base_retail |-> 700, base_cost |-> 600, wholesale_only |-> FALSE, never_sell |-> FALSE, hero_boost |-> 1],
    [barcode |-> "480004784003", brand |-> "Zonrox", category |-> "HOUSEHOLD", base_retail |-> 3800, base_cost |-> 3400, wholesale_only |-> FALSE, never_sell |-> FALSE, hero_boost |-> 1],
    [barcode |-> "037000359562", brand |-> "Ariel", category |-> "HOUSEHOLD", base_retail |-> 66000, base_cost |-> 59500, wholesale_only |-> FALSE, never_sell |-> FALSE, hero_boost |-> 1],
    [barcode |-> "490243086729", brand |-> "Joy", category |-> "HOUSEHOLD", base_retail |-> 13400, base_cost |-> 12000, wholesale_only |-> FALSE, never_sell |-> FALSE, hero_boost |-> 1],
    [barcode |-> "490243078997", brand |-> "Joy", category |-> "HOUSEHOLD", base_retail |-> 1200, base_cost |-> 1050, wholesale_only |-> FALSE, never_sell |-> FALSE, hero_boost |-> 1],
    [barcode |-> "480004210014", brand |-> "UFC", category |-> "DEAD_STOCK", base_retail |-> 6500, base_cost |-> 5800, wholesale_only |-> FALSE, never_sell |-> TRUE, hero_boost |-> 1],
    [barcode |-> "489310100015", brand |-> "Lucky Me", category |-> "INSTANT_NOODLES", base_retail |-> 1250, base_cost |-> 1100, wholesale_only |-> FALSE, never_sell |-> FALSE, hero_boost |-> 3]
>>

ProductIdx == 1..Len(PRODUCTS)

-----------------------------------------------------------------------------
(* Inflation (generate_history_v3 and generate_suppliers) *)

\* ANNUAL_INFLATION_RATE / 365.25 = 0.045 / 365.25 = 3 / 24350 per day
INFLATION_PER_DAY_NUM == 3
INFLATION_DEN == 24350

\* the factor if the day of START_DATE itself counted as a day of inflation
get_inflation_factor_inclusive(date) ==
    [num |-> INFLATION_DEN + INFLATION_PER_DAY_NUM * (date - START_DATE + 1),
     den |-> INFLATION_DEN]

\* the factor if the daily rate were subtracted
get_inflation_factor_falling(date) ==
    [num |-> INFLATION_DEN - INFLATION_PER_DAY_NUM * (date - START_DATE),
     den |-> INFLATION_DEN]

\* get_inflation_factor(date): 1 + ANNUAL_INFLATION_RATE * days / 365.25, as the
\* fraction num / den
get_inflation_factor(date) ==
    [num |-> INFLATION_DEN + INFLATION_PER_DAY_NUM * (date - START_DATE),
     den |-> INFLATION_DEN]

\* round(get_inflation_factor(date), 4), in ten-thousandths
inflation_factor_field(date) ==
    LET factor == get_inflation_factor(date)
    IN  RoundDiv(factor.num * 10000, factor.den)

\* get_inflated_prices(product, date): <<retail, cost>> rounded to centavos
get_inflated_prices(product, date) ==
    LET factor == get_inflation_factor(date)
    IN  <<RoundDiv(product.base_retail * factor.num, factor.den),
          RoundDiv(product.base_cost * factor.num, factor.den)>>

-----------------------------------------------------------------------------
(* generate_suppliers: catalog and inflation *)

\* PRODUCTS of generate_suppliers, in source order; cost_price in centavos
SUP_PRODUCTS == <<
    [barcode |-> "544900000099", category |-> "SODA", cost_price |-> 1800],
    [barcode |-> "480198112005", category |-> "SODA", cost_price |-> 2250],
    [barcode |-> "480198112010", category |-> "SODA", cost_price |-> 2250],
    [barcode |-> "480198112000", category |-> "SODA", cost_price |-> 2250],
    [barcode |-> "480392525114", category |-> "SODA", cost_price |-> 2000],
    [barcode |-> "480392525110", category |-> "SODA", cost_price |-> 2000],
    [barcode |-> "480198111607", category |-> "SODA", cost_price |-> 5400],
    [barcode |-> "480198118062", category |-> "SODA", cost_price |-> 5400],
    [barcode |-> "480191198062", category |-> "SODA", cost_price |-> 5400],
    [barcode |-> "480392515114", category |-> "SODA", cost_price |-> 5000],
    [barcode |-> "480392515110", category |-> "SODA", cost_price |-> 5000],
    [barcode |-> "480198111664", category |-> "SODA", cost_price |-> 5400],
    [barcode |-> "480392515112", category |-> "SODA", cost_price |-> 5000],
    [barcode |-> "480198109722", category |-> "SODA", cost_price |-> 5400],
    [barcode |-> "480392515116", category |-> "SODA", cost_price |-> 5400],
    [barcode |-> "480198111696", category |-> "SODA", cost_price |-> 5850],
    [barcode |-> "480198112717", category |-> "SOFTDRINKS_CASE", cost_price |-> 11200],
    [barcode |-> "480198112720", category |-> "SOFTDRINKS_CASE", cost_price |-> 11200],
    [barcode |-> "480198102719", category |-> "SOFTDRINKS_CASE", cost_price |-> 11200],
    [barcode |-> "480392513032", category |-> "SOFTDRINKS_CASE", cost_price |-> 18000],
    [barcode |-> "480374937310", category |-> "SOFTDRINKS_CASE", cost_price |-> 31500],
    [barcode |-> "480611352020", category |-> "SOFTDRINKS_CASE", cost_price |-> 12700],
    [barcode |-> "480732471900", category |-> "SOFTDRINKS_CASE", cost_price |-> 31500],
    [barcode |-> "542353276241", category |-> "SOFTDRINKS_CASE", cost_price |-> 31500],
    [barcode |-> "955600121722", category |-> "BEVERAGES", cost_price |-> 1050],
    [barcode |-> "480036141081", category |-> "BEVERAGES", cost_price |-> 1000],
    [barcode |-> "480864731007", category |-> "BEVERAGES", cost_price |-> 19500],
    [barcode |-> "965412919731", category |-> "BEVERAGES", cost_price |-> 800],
    [barcode |-> "965412919613", category |-> "BEVERAGES", cost_price |-> 750],
    [barcode |-> "489120804013", category |-> "SNACK", cost_price |-> 1550],
    [barcode |-> "893921341445", category |-> "SNACK", cost_price |-> 5250],
    [barcode |-> "893951811445", category |-> "SNACK", cost_price |-> 5400],
    [barcode |-> "748485200019", category |-> "CANNED_GOODS", cost_price |-> 2200],
    [barcode |-> "748485800035", category |-> "CANNED_GOODS", cost_price |-> 5200],
    [barcode |-> "480002201028", category |-> "CANNED_GOODS", cost_price |-> 1300],
    [barcode |-> "480057511015", category |-> "DAIRY", cost_price |-> 2550],
    [barcode |-> "480057513016", category |-> "DAIRY", cost_price |-> 3500],
    [barcode |-> "480864702009", category |-> "DAIRY", cost_price |-> 7000],
    [barcode |-> "480535824701", category |-> "DAIRY", cost_price |-> 3700],
    [barcode |-> "000008586780", category |-> "CONDIMENTS", cost_price |-> 7300],
    [barcode |-> "642611907726", category |-> "CONDIMENTS", cost_price |-> 1150],
    [barcode |-> "642647382226", category |-> "PERSONAL_CARE", cost_price |-> 4000],
    [barcode |-> "642321541122", category |-> "PERSONAL_CARE", cost_price |-> 10500],
    [barcode |-> "672329634182", category |-> "PERSONAL_CARE", cost_price |-> 11500],
    [barcode |-> "480088814685", category |-> "PERSONAL_CARE", cost_price |-> 13500],
    [barcode |-> "870021639476", category |-> "HOUSEHOLD", cost_price |-> 600],
    [barcode |-> "480004784003", category |-> "HOUSEHOLD", cost_price |-> 3400],
    [barcode |-> "037000359562", category |-> "HOUSEHOLD", cost_price |-> 59500],
    [barcode |-> "490243086729", category |-> "HOUSEHOLD", cost_price |-> 12000],
    [barcode |-> "490243078997", category |-> "HOUSEHOLD", cost_price |-> 1050],
    [barcode |-> "489310100015", category |-> "INSTANT_NOODLES", cost_price |-> 1100]
>>

\* generate_suppliers.get_inflation_factor(date)
sup_get_inflation_factor(date) ==
    [num |-> INFLATION_DEN + INFLATION_PER_DAY_NUM * (date - START_DATE),
     den |-> INFLATION_DEN]

\* generate_suppliers.get_inflated_cost(base_cost, date)
get_inflated_cost(base_cost, date) ==
    LET factor == sup_get_inflation_factor(date)
    IN  RoundDiv(base_cost * factor.num, factor.den)

-----------------------------------------------------------------------------
(* Sampling of the random draws *)

\* catalog positions (of PRODUCTS) the model lets random.choice return, most
\* telling first: expensive household, expensive beverage, dead stock,
\* wholesale case, cheap soda, hero, mid soda, cheap beverage, large case, ...
SampleIdx == <<48, 27, 51, 17, 1, 52, 11, 25, 21, 33, 40, 30>>

DrawnIdx == {SampleIdx[k] : k \in 1..Min(NumDrawn, Len(SampleIdx))}

\* random.randint(lo, hi) and random.uniform(lo, hi), sampled: both ends
Ends(lo, hi) == {lo, hi}

-----------------------------------------------------------------------------
(* generate_history_v3: configuration and events *)

\* CUSTOMER_PROFILES (weight in percent, ticket_range in pesos)
CUSTOMER_PROFILES ==
    [SNACKER   |-> [weight |-> 70, items_range |-> <<1, 2>>,
                    ticket_range |-> <<15, 150>>, qty_per_item |-> <<1, 1>>],
     HOUSEHOLD |-> [weight |-> 20, items_range |-> <<3, 8>>,
                    ticket_range |-> <<300, 1500>>, qty_per_item |-> <<1, 2>>],
     VENDOR    |-> [weight |-> 10, items_range |-> <<5, 15>>,
                    ticket_range |-> <<1500, 8000>>, qty_per_item |-> <<3, 12>>]]

ProfileNames == {"SNACKER", "HOUSEHOLD", "VENDOR"}

BASE_DAILY_TRANSACTIONS == 110

CAMPAIGN_BRANDS ==
    <<"Coca-Cola", "Pepsi", "Nestle", "Oishi", "Alaska", "Ariel", "Joy", "555", "Lucky Me">>

\* the six campaign_names of generate_brand_campaigns, without the brand
campaign_names ==
    <<"TV Commercial Blitz", "Summer Promo", "Back to School",
      "Holiday Special", "Anniversary Sale", "New Product Launch">>

\* one pass of the loop of generate_brand_campaigns with the draws
\* brand = CAMPAIGN_BRANDS[b], month, day and campaign_names[n];
\* multiplier 3.0 in hundredths
BrandCampaign(year, b, month, day, n) ==
    LET start_date == datetime(year, month, day)
    IN  [name |-> <<CAMPAIGN_BRANDS[b], campaign_names[n]>>,
         brand |-> CAMPAIGN_BRANDS[b],
         start_date |-> start_date,
         end_date |-> start_date + 7,
         multiplier |-> 300]

\* [m for m in range(1, 13) if m not in used_months]
available_months(used_months) ==
    LET Free(m) == m \notin used_months
    IN  SelectSeq(<<1, 2, 3, 4, 5, 6, 7, 8, 9, 10, 11, 12>>, Free)

\* the loop of generate_brand_campaigns for one sequence of draws:
\* tape[k] = <<b, m, day, n>> drawn in pass k, the month being
\* random.choice(available_months) = available_months[m]
RECURSIVE campaigns_loop(_, _, _, _)
campaigns_loop(year, tape, used_months, acc) ==
    IF tape = << >> \/ available_months(used_months) = << >> THEN acc
    ELSE LET d == Head(tape)
             month == available_months(used_months)[d[2]]
         IN  campaigns_loop(year, Tail(tape), used_months \cup {month},
                            Append(acc, BrandCampaign(year, d[1], month, d[3], d[4])))

\* generate_brand_campaigns(year, num_campaigns = 3): len(tape) = num_campaigns
generate_brand_campaigns(year, tape) == campaigns_loop(year, tape, {}, << >>)

\* one pass of the loop of generate_store_promos: the promo of `month` with the
\* draws random.sample(PRODUCTS, k) = the products at `sample`, start day,
\* length in days and multiplier (hundredths, uniform(1.5, 2.2))
StorePromo(year, month, sample, day, length, mult) ==
    LET start_date == datetime(year, month, day)
    IN  [name |-> <<"Christian Minimart", month, "Sale">>,
         product_barcodes |-> [k \in 1..Len(sample) |-> PRODUCTS[sample[k]].barcode],
         start_date |-> start_date,
         end_date |-> start_date + length,
         multiplier |-> mult]

PROMO_MONTHS == <<2, 5, 8, 11>>

\* generate_store_promos(year) for one sequence of draws:
\* tape[k] = <<sample, day, length, mult>> drawn for PROMO_MONTHS[k]
generate_store_promos(year, tape) ==
    [k \in 1..Len(tape) |->
        StorePromo(year, PROMO_MONTHS[k], tape[k][1], tape[k][2], tape[k][3], tape[k][4])]

\* generate_holidays(year); multiplier in tenths
Holiday(name, date, duration_days, multiplier) ==
    [name |-> name, date |-> date, duration_days |-> duration_days,
     multiplier |-> multiplier]

generate_holidays(year) ==
    << Holiday("New Year's Day", datetime(year, 1, 1), 2, 16),
       Holiday("Valentine's Day", datetime(year, 2, 14), 2, 14),
       Holiday("Holy Week", datetime(year, 3, 28), 4, 15),
       Holiday("Labor Day", datetime(year, 5, 1), 1, 13),
       Holiday("Independence Day", datetime(year, 6, 12), 1, 13),
       Holiday("All Saints Day", datetime(year, 11, 1), 2, 14),
       Holiday("Bonifacio Day", datetime(year, 11, 30), 1, 13),
       Holiday("Christmas Eve", datetime(year, 12, 24), 2, 20),
       Holiday("Christmas Day", datetime(year, 12, 25), 2, 18),
       Holiday("New Year's Eve", datetime(year, 12, 31), 1, 19) >>

\* range(START_DATE.year, last + 1), as a sequence
years(last) == [k \in 1..(last - START_YEAR + 1) |-> START_YEAR + k - 1]

\* all_xs after "all_xs.extend(xs)" for the lists xs of the years, in order
RECURSIVE extended(_)
extended(lists) ==
    IF lists = << >> THEN << >> ELSE Head(lists) \o extended(Tail(lists))

-----------------------------------------------------------------------------
(* generate_history_v3: multipliers *)

\* get_seasonality_multiplier(date, category), in twentieths
get_seasonality_multiplier(date, category) ==
    LET month == MonthOf(date)
    IN  IF month = 12 THEN 30
        ELSE IF month = 11 THEN 24
        ELSE IF month \in {4, 5} /\ category \in {"BEVERAGES", "SODA", "SOFTDRINKS_CASE"} THEN 28
        ELSE IF month \in {3, 4} THEN 22
        ELSE IF month = 8 THEN 23
        ELSE 20

\* get_payday_multiplier(date), in fifths
get_payday_multiplier(date) ==
    LET day == DayOf(date)
    IN  IF day \in {15, 30, 31} THEN 7
        ELSE IF day \in {14, 16, 29} THEN 6
        ELSE 5

\* get_day_of_week_multiplier(date), in twentieths
get_day_of_week_multiplier(date) ==
    LET day == WeekdayOf(date)
    IN  IF day = 5 THEN 26
        ELSE IF day = 6 THEN 25
        ELSE IF day = 4 THEN 23
        ELSE 20

\* the result of a "for x in xs: if ...: return True, x" scan whose test the
\* positions in hits pass: (found, position of the first hit)
FirstHit(hits) ==
    IF hits = {} THEN [found |-> FALSE, at |-> 0]
    ELSE [found |-> TRUE, at |-> CHOOSE k \in hits : \A j \in hits : k <= j]

\* is_within_campaign(date, campaigns, brand)
is_within_campaign(date, cmps, brand) ==
    FirstHit({k \in 1..Len(cmps) :
                /\ cmps[k].brand = brand
                /\ cmps[k].start_date <= date /\ date <= cmps[k].end_date})

\* is_within_store_promo(date, promos, barcode)
is_within_store_promo(date, prms, barcode) ==
    FirstHit({k \in 1..Len(prms) :
                /\ \E n \in 1..Len(prms[k].product_barcodes) :
                      prms[k].product_barcodes[n] = barcode
                /\ prms[k].start_date <= date /\ date <= prms[k].end_date})

\* is_within_holiday(date, holidays)
is_within_holiday(date, hols) ==
    FirstHit({k \in 1..Len(hols) :
                hols[k].date <= date /\ date <= hols[k].date + hols[k].duration_days})

-----------------------------------------------------------------------------
(* generate_history_v3: get_products_for_profile *)

AllIdx == [i \in ProductIdx |-> i]

\* list * n
RECURSIVE Times(_, _)
Times(list, n) == IF n <= 0 THEN << >> ELSE list \o Times(list, n - 1)

\* number of copies of x in list
Copies(list, x) == Cardinality({k \in 1..Len(list) : list[k] = x})

InList(list, x) == \E k \in 1..Len(list) : list[k] = x

\* product_with_prices["retail_price"] / ["cost_price"] of PRODUCTS[i] on date
retail_price(i, date) == get_inflated_prices(PRODUCTS[i], date)[1]
cost_price(i, date) == get_inflated_prices(PRODUCTS[i], date)[2]

\* the retail pool if the loop over PRODUCTS did not skip never_sell products
product_pool_unfiltered ==
    LET Retail(i) == ~PRODUCTS[i].wholesale_only
    IN  SelectSeq(AllIdx, Retail)

\* product_pool and wholesale_pool after the loop over PRODUCTS (as catalog
\* positions; the prices are retail_price and cost_price above)
product_pool ==
    LET Retail(i) == ~PRODUCTS[i].never_sell /\ ~PRODUCTS[i].wholesale_only
    IN  SelectSeq(AllIdx, Retail)

wholesale_pool ==
    LET Wholesale(i) == ~PRODUCTS[i].never_sell /\ PRODUCTS[i].wholesale_only
    IN  SelectSeq(AllIdx, Wholesale)

cheap_products(date) ==
    LET Cheap(i) == retail_price(i, date) <= 3000
    IN  SelectSeq(product_pool, Cheap)

mid_products(date) ==
    LET Mid(i) == 3000 < retail_price(i, date) /\ retail_price(i, date) <= 8000
    IN  SelectSeq(product_pool, Mid)

expensive_products(date) ==
    LET Expensive(i) == retail_price(i, date) > 8000
    IN  SelectSeq(product_pool, Expensive)

\* weighted_pool: every product hero_boost times
RECURSIVE weighted(_)
weighted(pool) ==
    IF pool = << >> THEN << >>
    ELSE Times(<<Head(pool)>>, 1 + (PRODUCTS[Head(pool)].hero_boost - 1))
         \o weighted(Tail(pool))

weighted_pool == weighted(product_pool)

\* the pool if the HOUSEHOLD branch also took the wholesale pool
profile_pool_with_cases(prof, date) ==
    IF prof = "SNACKER" THEN
        IF cheap_products(date) # << >>
        THEN Times(cheap_products(date), 4) \o mid_products(date)
        ELSE weighted_pool
    ELSE IF prof = "HOUSEHOLD" THEN
        Times(cheap_products(date), 2) \o Times(mid_products(date), 2)
            \o expensive_products(date) \o wholesale_pool
    ELSE weighted_pool \o Times(wholesale_pool, 3)

\* the pool chosen by profile, before the hero products are added
profile_pool(prof, date) ==
    IF prof = "SNACKER" THEN
        IF cheap_products(date) # << >>
        THEN Times(cheap_products(date), 4) \o mid_products(date)
        ELSE weighted_pool
    ELSE IF prof = "HOUSEHOLD" THEN
        Times(cheap_products(date), 2) \o Times(mid_products(date), 2)
            \o expensive_products(date)
    ELSE weighted_pool \o Times(wholesale_pool, 3)

\* "Add hero products to selection pool": hero_boost more copies of each
RECURSIVE hero_copies(_)
hero_copies(pool) ==
    IF pool = << >> THEN << >>
    ELSE (IF PRODUCTS[Head(pool)].hero_boost > 1
          THEN Times(<<Head(pool)>>, PRODUCTS[Head(pool)].hero_boost)
          ELSE << >>)
         \o hero_copies(Tail(pool))

\* selection_pool when the selection loop starts (random.shuffle only reorders it)
selection_pool(prof, date) == profile_pool(prof, date) \o hero_copies(product_pool)

\* target_max after "target_max *= inflation", as a numerator over 487
\* (pesos * 100 * num / 24350 centavos = pesos * 2 * num / 487)
target_max_487(prof, date) ==
    CUSTOMER_PROFILES[prof].ticket_range[2] * 2 * get_inflation_factor(date).num

\* current_total + item_total > target_max   (amounts in centavos)
exceeds_budget(prof, date, amount) == amount * 487 > target_max_487(prof, date)

\* current_total >= target_max
reaches_budget(prof, date, amount) == amount * 487 >= target_max_487(prof, date)

\* "qty = min(qty + 1, max_qty + 2)" when a campaign or promo is active and the
\* profile is not SNACKER
boosted_qty(prof, qty, in_campaign, in_promo) ==
    IF (in_campaign \/ in_promo) /\ prof # "SNACKER"
    THEN Min(qty + 1, CUSTOMER_PROFILES[prof].qty_per_item[2] + 2)
    ELSE qty

\* "qty = max(1, int((target_max - current_total) / retail))"
fitted_qty(prof, date, total, retail) ==
    Max(1, TruncDiv(target_max_487(prof, date) - total * 487, 487 * retail))

\* the item total if it were not recomputed after the quantity was fitted
stale_item_total(retail, qty, item_total) == item_total

\* "item_total = retail * qty" after the quantity was fitted to the budget
fitted_item_total(retail, qty, item_total) == retail * qty

\* the dict appended to selected_items
selected_item(i, date, qty, item_total) ==
    [idx |-> i,
     barcode |-> PRODUCTS[i].barcode,
     brand |-> PRODUCTS[i].brand,
     category |-> PRODUCTS[i].category,
     wholesale_only |-> PRODUCTS[i].wholesale_only,
     retail_price |-> retail_price(i, date),
     cost_price |-> cost_price(i, date),
     quantity |-> qty,
     subtotal |-> item_total,
     cost_total |-> cost_price(i, date) * qty]

\* the pass if a product already in the basket were not skipped
selection_pass_keeps_duplicates(prof, date, cmps, prms, items, total, i, qty) ==
    LET retail == retail_price(i, date)
        in_campaign == is_within_campaign(date, cmps, PRODUCTS[i].brand).found
        in_promo == is_within_store_promo(date, prms, PRODUCTS[i].barcode).found
        qty1 == boosted_qty(prof, qty, in_campaign, in_promo)
        total1 == retail * qty1
        over == exceeds_budget(prof, date, total + total1)
        qty2 == IF over THEN fitted_qty(prof, date, total, retail) ELSE qty1
        total2 == IF over THEN fitted_item_total(retail, qty2, total1) ELSE total1
    IN  IF over /\ prof = "SNACKER" THEN [kind |-> "skip"]
        ELSE IF over /\ qty2 <= 0 THEN [kind |-> "skip"]
        ELSE [kind |-> "append",
              item |-> selected_item(i, date, qty2, total2),
              took |-> total2,
              fitted |-> over,
              stop |-> reaches_budget(prof, date, total + total2)]

\* one pass of the selection loop after "attempts += 1", for the draws
\* product = PRODUCTS[i] and qty: what the pass does to the basket
\*   skip   - a "continue"
\*   append - the item is appended, took is its item_total, stop is the "break"
selection_pass(prof, date, cmps, prms, items, total, i, qty) ==
    LET retail == retail_price(i, date)
        in_campaign == is_within_campaign(date, cmps, PRODUCTS[i].brand).found
        in_promo == is_within_store_promo(date, prms, PRODUCTS[i].barcode).found
        qty1 == boosted_qty(prof, qty, in_campaign, in_promo)
        total1 == retail * qty1
        over == exceeds_budget(prof, date, total + total1)
        qty2 == IF over THEN fitted_qty(prof, date, total, retail) ELSE qty1
        total2 == IF over THEN fitted_item_total(retail, qty2, total1) ELSE total1
        duplicate == \E k \in 1..Len(items) : items[k].barcode = PRODUCTS[i].barcode
    IN  IF over /\ prof = "SNACKER" THEN [kind |-> "skip"]
        ELSE IF over /\ qty2 <= 0 THEN [kind |-> "skip"]
        ELSE IF duplicate THEN [kind |-> "skip"]
        ELSE [kind |-> "append",
              item |-> selected_item(i, date, qty2, total2),
              took |-> total2,
              fitted |-> over,
              stop |-> reaches_budget(prof, date, total + total2)]

\* the count if the payday multiplier were left out of the product
get_daily_transaction_count_no_payday(date, hols, noise) ==
    LET hit == is_within_holiday(date, hols)
        holiday_mult == IF hit.found THEN hols[hit.at].multiplier ELSE 10
    IN  Max(50, (BASE_DAILY_TRANSACTIONS * get_seasonality_multiplier(date, "")
                   * get_day_of_week_multiplier(date) * holiday_mult * 5 * noise)
                \div 2000000)

\* get_daily_transaction_count(date, holidays) for the draw
\* random.uniform(0.85, 1.15) = noise / 100; the product of the multipliers
\* has the scale 20 * 20 * 10 * 5 * 100
get_daily_transaction_count(date, hols, noise) ==
    LET seasonality_m == get_seasonality_multiplier(date, "")
        dow_mult == get_day_of_week_multiplier(date)
        hit == is_within_holiday(date, hols)
        holiday_mult == IF hit.found THEN hols[hit.at].multiplier ELSE 10
        payday_mult == get_payday_multiplier(date)
        adjusted_count == BASE_DAILY_TRANSACTIONS * seasonality_m * dow_mult
                            * holiday_mult * payday_mult * noise
    IN  Max(50, adjusted_count \div 2000000)

\* sum(item[field] for item in items)
RECURSIVE SumOf(_, _)
SumOf(items, field) ==
    IF items = << >> THEN 0 ELSE Head(items)[field] + SumOf(Tail(items), field)

\* the row if the holiday were tested before the campaign and the promo
sales_row_holiday_first(item, date, counter, prof, payment, cmps, prms, hols) ==
    LET c == is_within_campaign(date, cmps, item.brand)
        p == is_within_store_promo(date, prms, item.barcode)
        h == is_within_holiday(date, hols)
    IN  [transaction_id |-> <<"TX", date, counter>>,
         date |-> date,
         customer_type |-> prof,
         barcode |-> item.barcode,
         brand |-> item.brand,
         category |-> item.category,
         quantity |-> item.quantity,
         unit_price |-> item.retail_price,
         cost_price |-> item.cost_price,
         subtotal |-> item.subtotal,
         cost_total |-> item.cost_total,
         profit |-> item.subtotal - item.cost_total,
         payment_method |-> payment,
         is_event |-> c.found \/ p.found \/ h.found,
         event_source |-> IF h.found THEN "HOLIDAY"
                          ELSE IF c.found THEN "MANUFACTURER_CAMPAIGN"
                          ELSE IF p.found THEN "STORE_DISCOUNT"
                          ELSE "",
         event_name |-> IF h.found THEN <<hols[h.at].name>>
                        ELSE IF c.found THEN cmps[c.at].name
                        ELSE IF p.found THEN prms[p.at].name
                        ELSE << >>,
         inflation_factor |-> inflation_factor_field(date)]

\* the dict generate_daily_transactions appends for a line item (the time of
\* day and the product name are left out)
sales_row(item, date, counter, prof, payment, cmps, prms, hols) ==
    LET c == is_within_campaign(date, cmps, item.brand)
        p == is_within_store_promo(date, prms, item.barcode)
        h == is_within_holiday(date, hols)
    IN  [transaction_id |-> <<"TX", date, counter>>,
         date |-> date,
         customer_type |-> prof,
         barcode |-> item.barcode,
         brand |-> item.brand,
         category |-> item.category,
         quantity |-> item.quantity,
         unit_price |-> item.retail_price,
         cost_price |-> item.cost_price,
         subtotal |-> item.subtotal,
         cost_total |-> item.cost_total,
         profit |-> item.subtotal - item.cost_total,
         payment_method |-> payment,
         is_event |-> c.found \/ p.found \/ h.found,
         event_source |-> IF c.found THEN "MANUFACTURER_CAMPAIGN"
                          ELSE IF p.found THEN "STORE_DISCOUNT"
                          ELSE IF h.found THEN "HOLIDAY"
                          ELSE "",
         event_name |-> IF c.found THEN cmps[c.at].name
                        ELSE IF p.found THEN prms[p.at].name
                        ELSE IF h.found THEN <<hols[h.at].name>>
                        ELSE << >>,
         inflation_factor |-> inflation_factor_field(date)]

-----------------------------------------------------------------------------
(* generate_history_v3: the inputs of generate_daily_transactions *)

\* dates of the date loop the model generates a day for
V3Dates ==
    << datetime(2024, 1, 1), datetime(2024, 4, 15), datetime(2024, 5, 4),
       datetime(2025, 12, 25), datetime(2024, 2, 10) >>

V3DateSet == {V3Dates[k] : k \in 1..Min(NumDates, Len(V3Dates))}

\* draws of generate_brand_campaigns: <<b, m, day, n>> per pass
CampaignTapes ==
    << << <<1, 5, 1, 2>>, <<2, 4, 10, 1>>, <<6, 1, 1, 4>> >>,
       << <<4, 7, 21, 3>>, <<3, 8, 5, 5>>, <<9, 10, 1, 6>> >>,
       << <<9, 5, 2, 1>>, <<1, 1, 1, 3>>, <<1, 1, 3, 6>> >> >>

\* draws of generate_store_promos: <<sample, day, length, mult>> per month
PromoTapes ==
    << << << <<1, 52, 48>>, 5, 7, 150 >>, << <<11, 17, 25, 1>>, 1, 14, 220 >>,
          << <<51, 30, 33>>, 15, 10, 180 >>, << <<2, 3, 4, 5, 6, 7>>, 10, 7, 200 >> >>,
       << << <<40, 41, 42>>, 15, 7, 150 >>, << <<30, 31, 32, 33>>, 15, 7, 160 >>,
          << <<20, 21, 22>>, 1, 14, 220 >>, << <<8, 9, 10>>, 1, 9, 170 >> >>,
       << << <<51, 52, 17>>, 1, 14, 220 >>, << <<48, 27, 52>>, 2, 10, 150 >>,
          << <<1, 2, 3>>, 3, 8, 190 >>, << <<48, 49, 50, 51>>, 12, 14, 210 >> >> >>

\* all_campaigns and all_promos after the loop over the years, for tape t
CampaignInput(t) ==
    extended([k \in 1..Len(years(EndYear)) |->
                generate_brand_campaigns(years(EndYear)[k], CampaignTapes[t])])

PromoInput(t) ==
    extended([k \in 1..Len(years(EndYear)) |->
                generate_store_promos(years(EndYear)[k], PromoTapes[t])])

HolidayInput ==
    extended([k \in 1..Len(years(EndYear)) |-> generate_holidays(years(EndYear)[k])])

-----------------------------------------------------------------------------
(* generate_history_v3: generate_daily_transactions, one day *)

NoPass == [kind |-> "none"]

v3vars == <<all_campaigns, all_promos, all_holidays, pc, seasonality, target_transactions,
            tx_counter, profile, num_items, attempts, selected_items,
            current_total, last_pass, rows, tx_total, tx_cost>>

IdlePrices ==
    /\ row_prev = NoRow
    /\ row_cur = NoRow
    /\ batch_cost = NoRow

IdleEvents ==
    /\ cur_year = 0
    /\ events_log = << >>

IdleV2 ==
    /\ product_pos = 0
    /\ sale = NoRow
    /\ sale_twin = NoRow
    /\ all_sales_len = 0

IdleSup ==
    /\ next_restock_date = << >>
    /\ sup_pos = 0
    /\ batch_id = 0
    /\ return_id = 0
    /\ received = << >>
    /\ batch = NoRow
    /\ return_record = NoRow

IdleStats ==
    /\ sales = << >>
    /\ summary = NoRow

IdleV3 ==
    /\ all_campaigns = << >>
    /\ all_promos = << >>
    /\ all_holidays = << >>
    /\ pc = "idle"
    /\ seasonality = 0
    /\ target_transactions = 0
    /\ tx_counter = 0
    /\ profile = ""
    /\ num_items = 0
    /\ attempts = 0
    /\ selected_items = << >>
    /\ current_total = 0
    /\ last_pass = NoPass
    /\ rows = << >>
    /\ tx_total = 0
    /\ tx_cost = 0

InitV3 ==
    /\ current_date \in V3DateSet
    /\ \E t \in 1..Min(NumTapes, Len(CampaignTapes)) :
          /\ all_campaigns = CampaignInput(t)
          /\ all_promos = PromoInput(t)
    /\ all_holidays = HolidayInput
    /\ pc = "day"
    /\ seasonality = 0
    /\ target_transactions = 0
    /\ tx_counter = 0
    /\ profile = ""
    /\ num_items = 0
    /\ attempts = 0
    /\ selected_items = << >>
    /\ current_total = 0
    /\ last_pass = NoPass
    /\ rows = << >>
    /\ tx_total = 0
    /\ tx_cost = 0
    /\ IdlePrices
    /\ IdleEvents
    /\ IdleV2
    /\ IdleSup
    /\ IdleStats

\* generate_daily_transactions up to its loop: the day's transaction count
DayStart(noise) ==
    /\ pc = "day"
    /\ seasonality' = get_seasonality_multiplier(current_date, "")
    /\ target_transactions' = get_daily_transaction_count(current_date, all_holidays, noise)
    /\ tx_counter' = 1
    /\ pc' = "tx"
    /\ UNCHANGED <<current_date, all_campaigns, all_promos, all_holidays, profile, num_items,
                   attempts, selected_items, current_total, last_pass, rows,
                   tx_total, tx_cost, row_prev, row_cur, batch_cost,
                   eventvars, v2vars, supvars, statvars>>

\* select_customer_profile() and get_products_for_profile up to its loop
StartTransaction(prof, n) ==
    /\ pc = "tx"
    /\ tx_counter <= Min(target_transactions, MaxTx)
    /\ n \in Ends(CUSTOMER_PROFILES[prof].items_range[1],
                  CUSTOMER_PROFILES[prof].items_range[2])
    /\ profile' = prof
    /\ num_items' = n
    /\ selected_items' = << >>
    /\ current_total' = 0
    /\ attempts' = 0
    /\ last_pass' = NoPass
    /\ rows' = << >>
    /\ tx_total' = 0
    /\ tx_cost' = 0
    /\ pc' = "select"
    /\ UNCHANGED <<current_date, all_campaigns, all_promos, all_holidays, seasonality,
                   target_transactions, tx_counter, row_prev, row_cur, batch_cost,
                   eventvars, v2vars, supvars, statvars>>

\* random.choice(pool), within the sample
Drawable(pool) == {i \in DrawnIdx : InList(pool, i)}

\* Drawable(selection_pool(prof, date)) for the dates of the model, tabulated
DrawableAt ==
    [prof \in ProfileNames, date \in V3DateSet |-> Drawable(selection_pool(prof, date))]

\* qty_per_item, or 1..3 cases for a wholesale product
QtyDraws(prof, i) ==
    IF PRODUCTS[i].wholesale_only THEN Ends(1, 3)
    ELSE Ends(CUSTOMER_PROFILES[prof].qty_per_item[1],
               CUSTOMER_PROFILES[prof].qty_per_item[2])

\* one pass of "while len(selected_items) < num_items and attempts < max_attempts"
SelectionPass(i, qty) ==
    /\ pc = "select"
    /\ attempts < MaxAttempts
    /\ qty \in QtyDraws(profile, i)
    /\ LET pass == selection_pass(profile, current_date, all_campaigns, all_promos,
                                  selected_items, current_total, i, qty)
           items1 == IF pass.kind = "append"
                     THEN Append(selected_items, pass.item) ELSE selected_items
           stop == pass.kind = "append" /\ pass.stop
       IN  /\ attempts' = attempts + 1
           /\ selected_items' = items1
           /\ current_total' = IF pass.kind = "append"
                               THEN current_total + pass.took ELSE current_total
           /\ last_pass' = [kind |-> pass.kind, idx |-> i, qty |-> qty,
                            fitted |-> pass.kind = "append" /\ pass.fitted]
           /\ pc' = IF stop \/ Len(items1) >= num_items
                       \/ attempts + 1 >= num_items * 5
                    THEN "emit" ELSE "select"
    /\ UNCHANGED <<current_date, all_campaigns, all_promos, all_holidays, seasonality,
                   target_transactions, tx_counter, profile, num_items, rows,
                   tx_total, tx_cost, row_prev, row_cur, batch_cost,
                   eventvars, v2vars, supvars, statvars>>

\* the rest of the transaction loop body: totals, payment, one row per item
EmitTransaction(payment) ==
    /\ pc = "emit"
    /\ IF selected_items = << >>
       THEN /\ rows' = << >>
            /\ UNCHANGED <<tx_total, tx_cost>>
       ELSE /\ tx_total' = SumOf(selected_items, "subtotal")
            /\ tx_cost' = SumOf(selected_items, "cost_total")
            /\ rows' = [k \in 1..Len(selected_items) |->
                           sales_row(selected_items[k], current_date, tx_counter,
                                     profile, payment, all_campaigns, all_promos, all_holidays)]
    /\ tx_counter' = tx_counter + 1
    /\ pc' = "tx"
    /\ UNCHANGED <<current_date, all_campaigns, all_promos, all_holidays, seasonality,
                   target_transactions, profile, num_items, attempts,
                   selected_items, current_total, last_pass,
                   row_prev, row_cur, batch_cost,
                   eventvars, v2vars, supvars, statvars>>

NextV3 ==
    \/ \E noise \in Ends(85, 115) : DayStart(noise)
    \/ /\ pc = "tx"
       /\ \E prof \in ProfileNames :
             \E n \in Ends(CUSTOMER_PROFILES[prof].items_range[1],
                           CUSTOMER_PROFILES[prof].items_range[2]) :
                StartTransaction(prof, n)
    \/ /\ pc = "select"
       /\ \E i \in DrawableAt[profile, current_date] :
             \E qty \in QtyDraws(profile, i) : SelectionPass(i, qty)
    \/ \E payment \in {"CASH", "GCASH"} : EmitTransaction(payment)

SpecV3 == InitV3 /\ [][NextV3]_vars

-----------------------------------------------------------------------------
(* Price path: the prices generate_all_sales emits from day to day *)

\* the price fields of the row generate_daily_transactions emits for a line
\* item of PRODUCTS[i] on `date`
PriceRow(i, date) ==
    LET prices == get_inflated_prices(PRODUCTS[i], date)
    IN  [date |-> date, idx |-> i, barcode |-> PRODUCTS[i].barcode,
         unit_price |-> prices[1], cost_price |-> prices[2],
         inflation_factor |-> inflation_factor_field(date)]

\* the cost of the batch generate_batches_and_returns receives for
\* SUP_PRODUCTS[j] on `date`
BatchCost(j, date) ==
    [date |-> date, idx |-> j, barcode |-> SUP_PRODUCTS[j].barcode,
     cost_price |-> get_inflated_cost(SUP_PRODUCTS[j].cost_price, date)]

InitPrices ==
    /\ current_date = START_DATE
    /\ row_prev = NoRow
    /\ row_cur = NoRow
    /\ batch_cost = NoRow
    /\ IdleV3
    /\ IdleEvents
    /\ IdleV2
    /\ IdleSup
    /\ IdleStats

\* a transaction of current_date puts a line item of product i in the output;
\* the model remembers either the row it replaces or the one remembered before
EmitRow(i) ==
    /\ ~PRODUCTS[i].never_sell
    /\ row_cur' = PriceRow(i, current_date)
    /\ row_prev' \in {row_prev, row_cur}
    /\ UNCHANGED <<current_date, batch_cost, v3vars, eventvars, v2vars, supvars, statvars>>

\* generate_suppliers: a batch of product j is received on current_date
ReceiveBatch(j) ==
    /\ batch_cost' = BatchCost(j, current_date)
    /\ UNCHANGED <<current_date, row_prev, row_cur, v3vars, eventvars, v2vars, supvars, statvars>>

\* current_date += timedelta(days=1)
NextDay ==
    /\ current_date < START_DATE + MaxDay
    /\ current_date' = current_date + 1
    /\ batch_cost' = NoRow
    /\ UNCHANGED <<row_prev, row_cur, v3vars, eventvars, v2vars, supvars, statvars>>

NextPrices ==
    \/ \E i \in DrawnIdx : EmitRow(i)
    \/ \E j \in {1, Len(SUP_PRODUCTS)} : ReceiveBatch(j)
    \/ NextDay

SpecPrices == InitPrices /\ [][NextPrices]_vars

-----------------------------------------------------------------------------
(* generate_history_v3: the events of generate_all_sales and export_events_csv *)

\* the draws generate_store_promos can make for one year: for each of the four
\* promo months the draw one of the first three tapes of PromoTapes holds for it
PromoDraws ==
    {[k \in 1..Len(PROMO_MONTHS) |-> PromoTapes[pick[k]][k]] :
        pick \in [1..Len(PROMO_MONTHS) -> 1..3]}

\* the dict export_events_csv appends for a campaign, a promo, a holiday
\* ("|".join(barcodes) is kept as the sequence of the barcodes it joins)
campaign_event(c) ==
    [name |-> c.name, source |-> "MANUFACTURER_CAMPAIGN",
     start_date |-> c.start_date, end_date |-> c.end_date,
     multiplier |-> c.multiplier, affected_brand |-> c.brand,
     affected_barcodes |-> << >>]

promo_event(p) ==
    [name |-> p.name, source |-> "STORE_DISCOUNT",
     start_date |-> p.start_date, end_date |-> p.end_date,
     multiplier |-> p.multiplier, affected_brand |-> "",
     affected_barcodes |-> p.product_barcodes]

holiday_event(h) ==
    [name |-> <<h.name>>, source |-> "HOLIDAY",
     start_date |-> h.date, end_date |-> h.date + h.duration_days,
     multiplier |-> h.multiplier, affected_brand |-> "",
     affected_barcodes |-> << >>]

\* events of export_events_csv(campaigns, promos, holidays, filename)
export_events_csv(cmps, prms, hols) ==
    [k \in 1..Len(cmps) |-> campaign_event(cmps[k])]
        \o [k \in 1..Len(prms) |-> promo_event(prms[k])]
        \o [k \in 1..Len(hols) |-> holiday_event(hols[k])]

InitEvents ==
    /\ current_date = START_DATE
    /\ all_campaigns = << >>
    /\ all_promos = << >>
    /\ all_holidays = << >>
    /\ pc = "years"
    /\ cur_year = START_YEAR
    /\ events_log = << >>
    /\ seasonality = 0
    /\ target_transactions = 0
    /\ tx_counter = 0
    /\ profile = ""
    /\ num_items = 0
    /\ attempts = 0
    /\ selected_items = << >>
    /\ current_total = 0
    /\ last_pass = NoPass
    /\ rows = << >>
    /\ tx_total = 0
    /\ tx_cost = 0
    /\ IdlePrices
    /\ IdleV2
    /\ IdleSup
    /\ IdleStats

\* one pass of "for year in years" of generate_all_sales
GenerateYear(campaign_tape, promo_tape) ==
    /\ pc = "years"
    /\ cur_year <= EndYear
    /\ all_campaigns' = all_campaigns \o generate_brand_campaigns(cur_year, campaign_tape)
    /\ all_promos' = all_promos \o generate_store_promos(cur_year, promo_tape)
    /\ all_holidays' = all_holidays \o generate_holidays(cur_year)
    /\ cur_year' = cur_year + 1
    /\ UNCHANGED <<current_date, pc, events_log, seasonality, target_transactions,
                   tx_counter, profile, num_items, attempts, selected_items,
                   current_total, last_pass, rows, tx_total, tx_cost,
                   row_prev, row_cur, batch_cost, v2vars, supvars, statvars>>

\* the main block once generate_all_sales has returned: export_events_csv
ExportEvents ==
    /\ pc = "years"
    /\ cur_year > EndYear
    /\ events_log' = export_events_csv(all_campaigns, all_promos, all_holidays)
    /\ pc' = "exported"
    /\ UNCHANGED <<current_date, all_campaigns, all_promos, all_holidays, cur_year,
                   seasonality, target_transactions, tx_counter, profile, num_items,
                   attempts, selected_items, current_total, last_pass, rows,
                   tx_total, tx_cost, row_prev, row_cur, batch_cost, v2vars, supvars, statvars>>

NextEvents ==
    \/ /\ pc = "years"
       /\ \E t \in 1..Min(NumTapes, Len(CampaignTapes)) :
             \E promo_tape \in PromoDraws : GenerateYear(CampaignTapes[t], promo_tape)
    \/ ExportEvents

SpecEvents == InitEvents /\ [][NextEvents]_vars

-----------------------------------------------------------------------------
(* generate_history_v2: catalog and events *)

\* PRODUCTS of generate_history_v2 (prices in centavos)
V2_PRODUCTS == <<
    [barcode |-> "544900000099", brand |-> "Coca-Cola", category |-> "SODA", retail_price |-> 2000, cost_price |-> 1800],
    [barcode |-> "480198112005", brand |-> "Coca-Cola", category |-> "SOFTDRINKS_CASE", retail_price |-> 2500, cost_price |-> 2250],
    [barcode |-> "480198112010", brand |-> "Coca-Cola", category |-> "SOFTDRINKS_CASE", retail_price |-> 2500, cost_price |-> 2250],
    [barcode |-> "480198112000", brand |-> "Coca-Cola", category |-> "SOFTDRINKS_CASE", retail_price |-> 2500, cost_price |-> 2250],
    [barcode |-> "480392525114", brand |-> "Pepsi", category |-> "SOFTDRINKS_CASE", retail_price |-> 2200, cost_price |-> 2000],
    [barcode |-> "480392525110", brand |-> "Pepsi", category |-> "SOFTDRINKS_CASE", retail_price |-> 2200, cost_price |-> 2000],
    [barcode |-> "480198111607", brand |-> "Coca-Cola", category |-> "SOFTDRINKS_CASE", retail_price |-> 6000, cost_price |-> 5400],
    [barcode |-> "480198118062", brand |-> "Coca-Cola", category |-> "SOFTDRINKS_CASE", retail_price |-> 6000, cost_price |-> 5400],
    [barcode |-> "480191198062", brand |-> "Coca-Cola", category |-> "SOFTDRINKS_CASE", retail_price |-> 6000, cost_price |-> 5400],
    [barcode |-> "480392515114", brand |-> "Pepsi", category |-> "SOFTDRINKS_CASE", retail_price |-> 5500, cost_price |-> 5000],
    [barcode |-> "480392515110", brand |-> "Pepsi", category |-> "SOFTDRINKS_CASE", retail_price |-> 5500, cost_price |-> 5000],
    [barcode |-> "480198111664", brand |-> "Coca-Cola", category |-> "SOFTDRINKS_CASE", retail_price |-> 6000, cost_price |-> 5400],
    [barcode |-> "480392515112", brand |-> "Pepsi", category |-> "SOFTDRINKS_CASE", retail_price |-> 5500, cost_price |-> 5000],
    [barcode |-> "480198109722", brand |-> "Coca-Cola", category |-> "SOFTDRINKS_CASE", retail_price |-> 6000, cost_price |-> 5400],
    [barcode |-> "480392515116", brand |-> "Pepsi", category |-> "SOFTDRINKS_CASE", retail_price |-> 6000, cost_price |-> 5400],
    [barcode |-> "480198111696", brand |-> "Coca-Cola", category |-> "SOFTDRINKS_CASE", retail_price |-> 6500, cost_price |-> 5850],
    [barcode |-> "955600121722", brand |-> "Nestle", category |-> "BEVERAGES", retail_price |-> 1200, cost_price |-> 1050],
    [barcode |-> "480036141081", brand |-> "Nestle", category |-> "BEVERAGES", retail_price |-> 1150, cost_price |-> 1000],
    [barcode |-> "480864731007", brand |-> "Tang", category |-> "BEVERAGES", retail_price |-> 21600, cost_price |-> 19500],
    [barcode |-> "965412919731", brand |-> "Energen", category |-> "BEVERAGES", retail_price |-> 900, cost_price |-> 800],
    [barcode |-> "965412919613", brand |-> "Energen", category |-> "BEVERAGES", retail_price |-> 860, cost_price |-> 750],
    [barcode |-> "489120804013", brand |-> "Oishi", category |-> "SNACK", retail_price |-> 1760, cost_price |-> 1550],
    [barcode |-> "893921341445", brand |-> "M.Y. San", category |-> "SNACK", retail_price |-> 5840, cost_price |-> 5250],
    [barcode |-> "893951811445", brand |-> "Rebisco", category |-> "SNACK", retail_price |-> 6020, cost_price |-> 5400],
    [barcode |-> "748485200019", brand |-> "555", category |-> "CANNED_GOODS", retail_price |-> 2500, cost_price |-> 2200],
    [barcode |-> "748485800035", brand |-> "Argentina", category |-> "CANNED_GOODS", retail_price |-> 5750, cost_price |-> 5200],
    [barcode |-> "480002201028", brand |-> "Hunts", category |-> "CANNED_GOODS", retail_price |-> 1450, cost_price |-> 1300],
    [barcode |-> "480057511015", brand |-> "Alaska", category |-> "DAIRY", retail_price |-> 2820, cost_price |-> 2550],
    [barcode |-> "480057513016", brand |-> "Alaska", category |-> "DAIRY", retail_price |-> 3900, cost_price |-> 3500],
    [barcode |-> "480864702009", brand |-> "Mondelez", category |-> "DAIRY", retail_price |-> 7800, cost_price |-> 7000],
    [barcode |-> "480535824701", brand |-> "Dari Creme", category |-> "DAIRY", retail_price |-> 4100, cost_price |-> 3700],
    [barcode |-> "000008586780", brand |-> "Datu Puti", category |-> "CONDIMENTS", retail_price |-> 8085, cost_price |-> 7300],
    [barcode |-> "642611907726", brand |-> "Ajinomoto", category |-> "BEVERAGES", retail_price |-> 1300, cost_price |-> 1150],
    [barcode |-> "642647382226", brand |-> "Sisters", category |-> "PERSONAL_CARE", retail_price |-> 4450, cost_price |-> 4000],
    [barcode |-> "642321541122", brand |-> "Sisters", category |-> "PERSONAL_CARE", retail_price |-> 11700, cost_price |-> 10500],
    [barcode |-> "672329634182", brand |-> "Whisper", category |-> "PERSONAL_CARE", retail_price |-> 12800, cost_price |-> 11500],
    [barcode |-> "480088814685", brand |-> "Sunsilk", category |-> "PERSONAL_CARE", retail_price |-> 15000, cost_price |-> 13500],
    [barcode |-> "870021639476", brand |-> "Downy", category |-> "HOUSEHOLD", retail_price |-> 700, cost_price |-> 600],
    [barcode |-> "480004784003", brand |-> "Zonrox", category |-> "HOUSEHOLD", retail_price |-> 3800, cost_price |-> 3400],
    [barcode |-> "037000359562", brand |-> "Ariel", category |-> "HOUSEHOLD", retail_price |-> 66000, cost_price |-> 59500],
    [barcode |-> "490243086729", brand |-> "Joy", category |-> "HOUSEHOLD", retail_price |-> 13400, cost_price |-> 12000],
    [barcode |-> "490243078997", brand |-> "Joy", category |-> "HOUSEHOLD", retail_price |-> 1200, cost_price |-> 1050]
>>

V2_END_DATE == datetime(2026, 1, 3)

V2_CAMPAIGN_BRANDS ==
    <<"Coca-Cola", "Pepsi", "Nestle", "Oishi", "Alaska", "Ariel", "Joy", "555">>

v2_campaign_names ==
    <<"TV Commercial Campaign", "Summer Blitz", "Back to School Promo",
      "Holiday Special", "Anniversary Sale", "Product Launch">>

\* one pass of the loop of generate_brand_campaigns with the draws
\* brand = CAMPAIGN_BRANDS[b], month, day, randint(5, 10) = length,
\* campaign_names[n] and uniform(2.0, 3.0) = mult / 10
v2_BrandCampaign(year, b, month, day, length, n, mult) ==
    LET start_date == datetime(year, month, day)
    IN  [name |-> <<V2_CAMPAIGN_BRANDS[b], v2_campaign_names[n]>>,
         brand |-> V2_CAMPAIGN_BRANDS[b],
         start_date |-> start_date,
         end_date |-> start_date + length,
         multiplier |-> mult]

\* the loop of generate_brand_campaigns for one sequence of draws:
\* tape[k] = <<b, m, day, length, n, mult>>, the month being available_months[m]
RECURSIVE v2_campaigns_loop(_, _, _, _)
v2_campaigns_loop(year, tape, used_months, acc) ==
    IF tape = << >> \/ available_months(used_months) = << >> THEN acc
    ELSE LET d == Head(tape)
             month == available_months(used_months)[d[2]]
         IN  v2_campaigns_loop(year, Tail(tape), used_months \cup {month},
                 Append(acc, v2_BrandCampaign(year, d[1], month, d[3], d[4], d[5], d[6])))

v2_generate_brand_campaigns(year, tape) == v2_campaigns_loop(year, tape, {}, << >>)

\* one pass of the loop of generate_store_promos; uniform(1.5, 2.2) = mult / 10
v2_StorePromo(year, month, sample, day, length, mult) ==
    LET start_date == datetime(year, month, day)
    IN  [name |-> <<"Christian Minimart", month, "Sale">>,
         product_barcodes |-> [k \in 1..Len(sample) |-> V2_PRODUCTS[sample[k]].barcode],
         start_date |-> start_date,
         end_date |-> start_date + length,
         multiplier |-> mult]

v2_generate_store_promos(year, tape) ==
    [k \in 1..Len(tape) |->
        v2_StorePromo(year, PROMO_MONTHS[k], tape[k][1], tape[k][2], tape[k][3], tape[k][4])]

\* generate_holidays(year) of generate_history_v2; multiplier in tenths
v2_generate_holidays(year) ==
    << Holiday("New Year's Day", datetime(year, 1, 1), 2, 16),
       Holiday("Valentine's Day", datetime(year, 2, 14), 2, 14),
       Holiday("Holy Week", datetime(year, 3, 28), 4, 15),
       Holiday("Labor Day", datetime(year, 5, 1), 1, 13),
       Holiday("Independence Day", datetime(year, 6, 12), 1, 13),
       Holiday("Bonifacio Day", datetime(year, 11, 30), 1, 13),
       Holiday("Christmas Eve", datetime(year, 12, 24), 2, 20),
       Holiday("Christmas Day", datetime(year, 12, 25), 2, 18),
       Holiday("New Year's Eve", datetime(year, 12, 31), 1, 19) >>

-----------------------------------------------------------------------------
(* generate_history_v2: multipliers and generate_daily_sales *)

\* what a draw held in the state does to the seasonality multiplier if the
\* multiplier is taken from the random state instead of the month
seasonality_of_random_state(date, category) ==
    IF sale # NoRow /\ sale.noise > 0 THEN 30 ELSE 20

\* get_seasonality_multiplier(date, category), in twentieths
v2_get_seasonality_multiplier(date, category) ==
    LET month == MonthOf(date)
    IN  IF month = 12 THEN 30
        ELSE IF month = 11 THEN 24
        ELSE IF month \in {4, 5} /\ category \in {"BEVERAGES", "SODA"} THEN 28
        ELSE IF month \in {3, 4} THEN 22
        ELSE IF month = 8 THEN 23
        ELSE 20

\* get_day_of_week_multiplier(date), in twentieths
v2_get_day_of_week_multiplier(date) ==
    LET day == WeekdayOf(date)
    IN  IF day = 5 THEN 26
        ELSE IF day = 6 THEN 25
        ELSE IF day = 4 THEN 23
        ELSE 20

v2_is_within_campaign(date, cmps, brand) ==
    FirstHit({k \in 1..Len(cmps) :
                /\ cmps[k].brand = brand
                /\ cmps[k].start_date <= date /\ date <= cmps[k].end_date})

v2_is_within_store_promo(date, prms, barcode) ==
    FirstHit({k \in 1..Len(prms) :
                /\ \E n \in 1..Len(prms[k].product_barcodes) :
                      prms[k].product_barcodes[n] = barcode
                /\ prms[k].start_date <= date /\ date <= prms[k].end_date})

v2_is_within_holiday(date, hols) ==
    FirstHit({k \in 1..Len(hols) :
                LET end_date == hols[k].date + hols[k].duration_days
                IN  hols[k].date <= date /\ date <= end_date})

\* "multiplier = 1.0" in the unit of the running multiplier, 1 / 400000
\* (= 20 * 20 * 10 * 10 * 10, the scales of the five factors)
MULTIPLIER_ONE == 400000

\* the larger of the running multiplier and the factor, instead of their product
multiplier_max(multiplier, factor, scale) ==
    Max(multiplier, (MULTIPLIER_ONE * factor) \div scale)

\* "multiplier *= factor" for a factor held as factor / scale
multiplier_times(multiplier, factor, scale) == (multiplier * factor) \div scale

\* generate_daily_sales(date, product, campaigns, promos, holidays) for
\* product = PRODUCTS[i] and the draws base_velocity = randint(5, 15),
\* noise = randint(-2, 2) and payment_method; the result holds the row (without
\* product_name and the two fields rounded for display) and the locals
\* base_velocity, noise, dow_mult, multiplier, in_campaign, in_promo, in_holiday
generate_daily_sales(date, i, cmps, prms, hols, base_velocity, noise, payment_method) ==
    LET product == V2_PRODUCTS[i]
        seasonality_mult == v2_get_seasonality_multiplier(date, product.category)
        m1 == multiplier_times(MULTIPLIER_ONE, seasonality_mult, 20)
        dow_mult == v2_get_day_of_week_multiplier(date)
        m2 == multiplier_times(m1, dow_mult, 20)
        c == v2_is_within_campaign(date, cmps, product.brand)
        m3 == IF c.found THEN multiplier_times(m2, cmps[c.at].multiplier, 10) ELSE m2
        source3 == IF c.found THEN "MANUFACTURER_CAMPAIGN" ELSE ""
        name3 == IF c.found THEN cmps[c.at].name ELSE << >>
        p == v2_is_within_store_promo(date, prms, product.barcode)
        m4 == IF p.found THEN multiplier_times(m3, prms[p.at].multiplier, 10) ELSE m3
        source4 == IF p.found /\ source3 = "" THEN "STORE_DISCOUNT" ELSE source3
        name4 == IF p.found /\ source3 = "" THEN prms[p.at].name ELSE name3
        h == v2_is_within_holiday(date, hols)
        m5 == IF h.found THEN multiplier_times(m4, hols[h.at].multiplier, 10) ELSE m4
        source5 == IF h.found /\ source4 = "" THEN "HOLIDAY" ELSE source4
        name5 == IF h.found /\ source4 = "" THEN <<hols[h.at].name>> ELSE name4
        quantity == Max(1, TruncDiv(base_velocity * m5, MULTIPLIER_ONE) + noise)
        subtotal == quantity * product.retail_price
        cost_total == quantity * product.cost_price
    IN  [date |-> date,
         idx |-> i,
         barcode |-> product.barcode,
         brand |-> product.brand,
         category |-> product.category,
         quantity |-> quantity,
         retail_price |-> product.retail_price,
         cost_price |-> product.cost_price,
         subtotal |-> subtotal,
         cost_total |-> cost_total,
         profit |-> subtotal - cost_total,
         payment_method |-> payment_method,
         is_event |-> c.found \/ p.found \/ (h.found /\ source4 = ""),
         event_source |-> source5,
         event_name |-> name5,
         seasonality_multiplier |-> seasonality_mult,
         base_velocity |-> base_velocity,
         noise |-> noise,
         dow_mult |-> dow_mult,
         multiplier |-> m5,
         in_campaign |-> c.found,
         in_promo |-> p.found,
         in_holiday |-> h.found]

-----------------------------------------------------------------------------
(* generate_history_v2: generate_all_sales *)

\* days the date loop is followed from the date the model starts it at
MaxV2Days == 1

\* dates of the date loop the model starts at, START_DATE and END_DATE among them
V2Dates ==
    << datetime(2024, 5, 1), START_DATE, V2_END_DATE, datetime(2024, 12, 28),
       datetime(2024, 4, 13), datetime(2025, 8, 9), datetime(2026, 1, 2) >>

\* how many of V2Dates the date loop is started at
NumV2Dates == 3

V2DateSet == {V2Dates[k] : k \in 1..Min(NumV2Dates, Len(V2Dates))}

V2Horizon == {d + k : d \in V2DateSet, k \in 0..MaxV2Days}

\* passes of "for product in PRODUCTS" that are followed from the position
\* the model starts the loop at
MaxV2Steps == 2

\* positions of "for product in PRODUCTS" the model starts at
V2SampleIdx == <<1, 17, 25, 42, 19, 40, 5, 33>>

V2StartSet == {V2SampleIdx[k] : k \in 1..Min(NumDrawn, Len(V2SampleIdx))}

V2Followed == {p + k : p \in V2StartSet, k \in 0..(MaxV2Steps - 1)}

\* draws of generate_brand_campaigns: <<b, m, day, length, n, mult>> per pass
V2CampaignTapes ==
    << << <<1, 5, 1, 5, 2, 25>>, <<3, 4, 10, 10, 1, 20>>, <<8, 10, 21, 7, 4, 30>> >>,
       << <<7, 8, 5, 6, 3, 22>>, <<2, 1, 1, 5, 5, 30>>, <<4, 2, 14, 10, 6, 20>> >>,
       << <<1, 12, 20, 10, 1, 30>>, <<1, 4, 13, 5, 2, 20>>, <<5, 1, 1, 8, 3, 27>> >> >>

\* draws of generate_store_promos: <<sample, day, length, mult>> per month
V2PromoTapes ==
    << << << <<17, 22, 40>>, 10, 7, 15 >>, << <<1, 19, 25, 38>>, 1, 14, 22 >>,
          << <<5, 28, 31>>, 15, 10, 18 >>, << <<25, 26, 27, 1, 2, 3>>, 15, 14, 20 >> >>,
       << << <<40, 41, 42>>, 15, 7, 15 >>, << <<30, 31, 32, 33>>, 15, 7, 16 >>,
          << <<20, 21, 22>>, 1, 14, 22 >>, << <<8, 9, 10>>, 1, 9, 17 >> >>,
       << << <<1, 2, 17>>, 1, 14, 22 >>, << <<19, 27, 42>>, 2, 10, 15 >>,
          << <<1, 2, 3>>, 3, 8, 19 >>, << <<25, 39, 40, 41>>, 12, 14, 21 >> >> >>

\* all_campaigns, all_promos and all_holidays after the loop over
\* range(START_DATE.year, END_DATE.year + 1), for tape t
V2CampaignInput(t) ==
    LET ys == years(YearOf(V2_END_DATE))
    IN  extended([k \in 1..Len(ys) |-> v2_generate_brand_campaigns(ys[k], V2CampaignTapes[t])])

V2PromoInput(t) ==
    LET ys == years(YearOf(V2_END_DATE))
    IN  extended([k \in 1..Len(ys) |-> v2_generate_store_promos(ys[k], V2PromoTapes[t])])

V2HolidayInput ==
    LET ys == years(YearOf(V2_END_DATE))
    IN  extended([k \in 1..Len(ys) |-> v2_generate_holidays(ys[k])])

\* len(all_sales) when the loops stand at `date` and at position `pos`:
\* every earlier date has been passed with one append per product
rows_emitted_before(date, pos) == (date - START_DATE) * Len(V2_PRODUCTS) + (pos - 1)

InitV2 ==
    /\ current_date \in V2DateSet
    /\ \E t \in 1..Min(NumTapes, Len(V2CampaignTapes)) :
          /\ all_campaigns = V2CampaignInput(t)
          /\ all_promos = V2PromoInput(t)
    /\ all_holidays = V2HolidayInput
    /\ pc = "sales"
    /\ product_pos \in V2StartSet
    /\ sale = NoRow
    /\ sale_twin = NoRow
    /\ all_sales_len = rows_emitted_before(current_date, product_pos)
    /\ seasonality = 0
    /\ target_transactions = 0
    /\ tx_counter = 0
    /\ profile = ""
    /\ num_items = 0
    /\ attempts = 0
    /\ selected_items = << >>
    /\ current_total = 0
    /\ last_pass = NoPass
    /\ rows = << >>
    /\ tx_total = 0
    /\ tx_cost = 0
    /\ IdlePrices
    /\ IdleEvents
    /\ IdleSup
    /\ IdleStats

\* one pass of "for product in PRODUCTS": sale = generate_daily_sales(...)
GenerateDailySales(base_velocity, noise, payment_method) ==
    /\ pc = "sales"
    /\ product_pos <= Len(V2_PRODUCTS)
    /\ product_pos \in V2Followed
    /\ sale' = generate_daily_sales(current_date, product_pos, all_campaigns, all_promos,
                                    all_holidays, base_velocity, noise, payment_method)
    /\ sale_twin' = NoRow
    /\ all_sales_len' = all_sales_len + 1
    /\ product_pos' = product_pos + 1
    /\ UNCHANGED <<current_date, all_campaigns, all_promos, all_holidays, pc,
                   seasonality, target_transactions, tx_counter, profile, num_items,
                   attempts, selected_items, current_total, last_pass, rows,
                   tx_total, tx_cost, row_prev, row_cur, batch_cost, eventvars, supvars, statvars>>

\* the call that produced sale, evaluated once more after its draws were made,
\* under draws of its own
EvaluateAgain(base_velocity, noise, payment_method) ==
    /\ pc = "sales"
    /\ sale # NoRow
    /\ sale_twin = NoRow
    /\ sale_twin' = generate_daily_sales(sale.date, sale.idx, all_campaigns, all_promos,
                                         all_holidays, base_velocity, noise, payment_method)
    /\ UNCHANGED <<current_date, all_campaigns, all_promos, all_holidays, pc,
                   seasonality, target_transactions, tx_counter, profile, num_items,
                   attempts, selected_items, current_total, last_pass, rows,
                   tx_total, tx_cost, row_prev, row_cur, batch_cost, eventvars,
                   product_pos, sale, all_sales_len, supvars, statvars>>

\* the step of the date loop if it advanced by two days
V2NextDate_skips_a_date ==
    /\ pc = "sales"
    /\ product_pos > Len(V2_PRODUCTS)
    /\ current_date + 1 <= V2_END_DATE
    /\ current_date + 1 \in V2Horizon
    /\ current_date' = current_date + 2
    /\ product_pos' = 1
    /\ UNCHANGED <<all_campaigns, all_promos, all_holidays, pc,
                   seasonality, target_transactions, tx_counter, profile, num_items,
                   attempts, selected_items, current_total, last_pass, rows,
                   tx_total, tx_cost, row_prev, row_cur, batch_cost, eventvars,
                   sale, sale_twin, all_sales_len, supvars, statvars>>

\* "current_date += timedelta(days=1)" while current_date <= END_DATE
V2NextDate ==
    /\ pc = "sales"
    /\ product_pos > Len(V2_PRODUCTS)
    /\ current_date + 1 <= V2_END_DATE
    /\ current_date + 1 \in V2Horizon
    /\ current_date' = current_date + 1
    /\ product_pos' = 1
    /\ UNCHANGED <<all_campaigns, all_promos, all_holidays, pc,
                   seasonality, target_transactions, tx_counter, profile, num_items,
                   attempts, selected_items, current_total, last_pass, rows,
                   tx_total, tx_cost, row_prev, row_cur, batch_cost, eventvars,
                   sale, sale_twin, all_sales_len, supvars, statvars>>

\* the draws of one call of generate_daily_sales the model takes:
\* <<randint(5, 15), randint(-2, 2), random.choice(PAYMENT_METHODS)>>
V2DrawSet ==
    { <<5, -2, "CASH">>, <<5, 2, "GCASH">>, <<10, 0, "CASH">>, <<15, -2, "GCASH">>,
      <<15, 2, "CASH">>, <<7, 1, "GCASH">>, <<12, -1, "CASH">> }

NextV2 ==
    \/ /\ pc = "sales"
       /\ \E draw \in V2DrawSet : GenerateDailySales(draw[1], draw[2], draw[3])
    \/ /\ pc = "sales"
       /\ \E draw \in V2DrawSet : EvaluateAgain(draw[1], draw[2], draw[3])
    \/ V2NextDate

SpecV2 == InitV2 /\ [][NextV2]_vars

\* C4: on START_DATE the inflation factor is exactly 1.0 in generate_history_v3
\* and in generate_suppliers, so the prices and costs of the first day are the
\* catalog's base prices and costs.
C4_FactorOneAtStart ==
    /\ get_inflation_factor(START_DATE).num = get_inflation_factor(START_DATE).den
    /\ sup_get_inflation_factor(START_DATE).num = sup_get_inflation_factor(START_DATE).den
    /\ (row_cur # NoRow /\ row_cur.date = START_DATE) =>
          /\ row_cur.unit_price = PRODUCTS[row_cur.idx].base_retail
          /\ row_cur.cost_price = PRODUCTS[row_cur.idx].base_cost
          /\ row_cur.inflation_factor = 10000
    /\ (batch_cost # NoRow /\ batch_cost.date = START_DATE) =>
          batch_cost.cost_price = SUP_PRODUCTS[batch_cost.idx].cost_price

C4_Witness ==
    /\ row_cur # NoRow /\ row_cur.date = START_DATE
    /\ batch_cost # NoRow /\ batch_cost.date = START_DATE

\* C5: the inflation factor is linear in the days since START_DATE, at least 1
\* and never falls from a day to the next; a product's unit price and cost price in a later row are never below
\* those of an earlier row, and two rows of the same product on the same date
\* carry the same unit_price and cost_price.
C5_PricesNeverFall ==
    /\ get_inflation_factor(current_date).num >= get_inflation_factor(current_date).den
    /\ current_date > START_DATE =>
          /\ get_inflation_factor(current_date - 1).num <= get_inflation_factor(current_date).num
          /\ get_inflation_factor(current_date).num - get_inflation_factor(current_date - 1).num
                = INFLATION_PER_DAY_NUM
    /\ (row_prev # NoRow /\ row_cur # NoRow /\ row_prev.barcode = row_cur.barcode) =>
          /\ row_prev.date <= row_cur.date
          /\ row_prev.unit_price <= row_cur.unit_price
          /\ row_prev.cost_price <= row_cur.cost_price
          /\ row_prev.date = row_cur.date =>
                /\ row_prev.unit_price = row_cur.unit_price
                /\ row_prev.cost_price = row_cur.cost_price

C5_Witness ==
    /\ row_prev # NoRow /\ row_cur # NoRow
    /\ row_prev.barcode = row_cur.barcode
    /\ row_prev.date < row_cur.date
    /\ row_prev.unit_price < row_cur.unit_price

-----------------------------------------------------------------------------
(* generate_suppliers: generate_batches_and_returns *)

NUM_SUPPLIERS == 15
AVG_RESTOCK_FREQUENCY_DAYS == 14
MIN_BATCH_QTY == 10
MAX_BATCH_QTY == 200
EXPIRY_DAYS_MIN == 30
EXPIRY_DAYS_MAX == 365
\* RETURN_QTY_PERCENT_MIN and RETURN_QTY_PERCENT_MAX, in percent
RETURN_QTY_PERCENT_MIN == 10
RETURN_QTY_PERCENT_MAX == 50

\* SUPPLIER_TEMPLATES: name and categories, in source order
SUPPLIER_TEMPLATES == <<
    [name |-> "San Miguel Corporation", categories |-> {"BEVERAGES", "SODA", "SOFTDRINKS_CASE"}],
    [name |-> "Coca-Cola Beverages Philippines", categories |-> {"SODA", "SOFTDRINKS_CASE", "BEVERAGES"}],
    [name |-> "Pepsi-Cola Products Philippines", categories |-> {"SODA", "SOFTDRINKS_CASE", "BEVERAGES"}],
    [name |-> "Nestle Philippines Inc.", categories |-> {"BEVERAGES", "DAIRY", "SNACK"}],
    [name |-> "URC (Universal Robina Corporation)", categories |-> {"SNACK", "BEVERAGES", "INSTANT_NOODLES"}],
    [name |-> "Monde Nissin Corporation", categories |-> {"INSTANT_NOODLES", "SNACK"}],
    [name |-> "Century Pacific Food Inc.", categories |-> {"CANNED_GOODS", "DAIRY"}],
    [name |-> "Alaska Milk Corporation", categories |-> {"DAIRY", "BEVERAGES"}],
    [name |-> "Procter & Gamble Philippines", categories |-> {"PERSONAL_CARE", "HOUSEHOLD"}],
    [name |-> "Unilever Philippines", categories |-> {"PERSONAL_CARE", "HOUSEHOLD", "CONDIMENTS"}],
    [name |-> "NutriAsia Inc.", categories |-> {"CONDIMENTS", "CANNED_GOODS"}],
    [name |-> "Rebisco Group of Companies", categories |-> {"SNACK"}],
    [name |-> "Oishi Snack Time", categories |-> {"SNACK", "BEVERAGES"}],
    [name |-> "Del Monte Philippines Inc.", categories |-> {"CANNED_GOODS", "CONDIMENTS"}],
    [name |-> "Philippine Seven Corp (7-Eleven Dist.)", categories |-> {"SNACK", "BEVERAGES", "PERSONAL_CARE"}]
>>

\* generate_suppliers(): the ids of the suppliers, in order
generate_suppliers == [k \in 1..Min(NUM_SUPPLIERS, Len(SUPPLIER_TEMPLATES)) |-> k]

\* category_to_suppliers[category]: the ids of the suppliers of a category, in order
category_to_suppliers(category) ==
    SelectSeq(generate_suppliers, LAMBDA k : category \in SUPPLIER_TEMPLATES[k].categories)

\* "available_suppliers = category_to_suppliers.get(category, [])" and the list
\* random.choice draws the supplier from
supplier_choices(category) ==
    LET available_suppliers == category_to_suppliers(category)
    IN  IF available_suppliers = << >> THEN generate_suppliers ELSE available_suppliers

\* generate_supplier_ref(supplier_name, date, index): the parts it formats
generate_supplier_ref(supplier_id, date, index) == <<supplier_id, date, index>>

\* the test the loop skips a product by: "if current_date < next_restock_date[barcode]: continue"
restock_due_late(date, next) == date > next

restock_due(date, next) == ~(date < next)

\* base_qty after the category and the seasonal adjustment
batch_quantity(category, month, base_qty, case_qty) ==
    LET by_category ==
            IF category \in {"SODA", "SNACK", "INSTANT_NOODLES"} THEN TruncDiv(base_qty * 15, 10)
            ELSE IF category \in {"SOFTDRINKS_CASE"} THEN case_qty
            ELSE base_qty
    IN  IF month = 12 THEN TruncDiv(by_category * 18, 10)
        ELSE IF month \in {11, 3, 4} THEN TruncDiv(by_category * 13, 10)
        ELSE by_category

\* the arguments of the random.randint that draws expiry_days for a category
expiry_days_range(category) ==
    IF category \in {"DAIRY", "BEVERAGES"} THEN <<30, 180>>
    ELSE IF category \in {"CANNED_GOODS"} THEN <<365, 730>>
    ELSE IF category \in {"PERSONAL_CARE", "HOUSEHOLD"} THEN <<365, 1095>>
    ELSE IF category \in {"CONDIMENTS"} THEN <<180, 365>>
    ELSE <<EXPIRY_DAYS_MIN, EXPIRY_DAYS_MAX>>

\* max_delay of a return
max_delay(expiry_days) ==
    LET limit == Min(expiry_days - 5, 180)
    IN  IF limit < 30 THEN 30 ELSE limit

\* "return_qty = max(1, int(base_qty * random.uniform(...)))" for the draw pct / 100
return_qty(base_qty, pct) == Max(1, TruncDiv(base_qty * pct, 100))

\* the InventoryBatch of product j received on `date`
InventoryBatch(id, j, quantity, expiry_date, date, supplier_id) ==
    [id |-> id,
     product_barcode |-> SUP_PRODUCTS[j].barcode,
     category |-> SUP_PRODUCTS[j].category,
     quantity |-> quantity,
     expiry_date |-> expiry_date,
     received_date |-> date,
     supplier_ref |-> generate_supplier_ref(supplier_id, date, id),
     supplier_name |-> SUPPLIER_TEMPLATES[supplier_id].name,
     supplier_id |-> supplier_id,
     cost_price |-> get_inflated_cost(SUP_PRODUCTS[j].cost_price, date),
     status |-> "ACTIVE"]

\* the StockMovementReturn if batch_id were advanced before the return is made
StockMovementReturn_after_increment(id, b, qty, reason, return_date) ==
    [id |-> id,
     batch_id |-> b.id + 1,
     product_barcode |-> b.product_barcode,
     supplier_id |-> b.supplier_id,
     supplier_name |-> b.supplier_name,
     movement_type |-> "SUPPLIER_RETURN",
     quantity_change |-> 0 - qty,
     reason |-> reason,
     reference |-> <<"RET-", b.supplier_ref>>,
     cost_price |-> b.cost_price,
     created_at |-> return_date]

\* the StockMovementReturn of a batch
StockMovementReturn(id, b, qty, reason, return_date) ==
    [id |-> id,
     batch_id |-> b.id,
     product_barcode |-> b.product_barcode,
     supplier_id |-> b.supplier_id,
     supplier_name |-> b.supplier_name,
     movement_type |-> "SUPPLIER_RETURN",
     quantity_change |-> 0 - qty,
     reason |-> reason,
     reference |-> <<"RET-", b.supplier_ref>>,
     cost_price |-> b.cost_price,
     created_at |-> return_date]

\* END_DATE (datetime.now() of the run), as far as the model lets a run reach
SupEndDate == START_DATE + SupEndDay

\* the last date of the date loop the model follows
SupLastDate == Min(SupEndDate, START_DATE + MaxSupDay)

\* the products of PRODUCTS a run of the model follows through the loop, in
\* catalog order: a soda and a canned good, or a case of soft drinks and a
\* dairy product
SupSamples == << <<1, 33>>, <<17, 36>> >>

SupFollowedSets == {{SupSamples[n][k] : k \in 1..Len(SupSamples[n])} : n \in 1..Len(SupSamples)}

\* the followed products of the run, read off the keys of next_restock_date
SupFollowed ==
    SupSamples[CHOOSE n \in 1..Len(SupSamples) :
                  {SupSamples[n][k] : k \in 1..Len(SupSamples[n])} = DOMAIN next_restock_date]

\* the draws of one restock, sampled: the supplier random.choice returns
\* (first or last of its list), base_qty, the quantity of cases, the end of
\* the expiry range, whether random.random() < RETURN_PROBABILITY, the end of
\* the delay range, the return percentage, the reason, restock_variance
SupDraw(pick, base_qty, case_qty, expiry, returned, delay, pct, reason, variance) ==
    [pick |-> pick, base_qty |-> base_qty, case_qty |-> case_qty, expiry |-> expiry,
     returned |-> returned, delay |-> delay, pct |-> pct, reason |-> reason,
     variance |-> variance]

SupDrawSet ==
    { SupDraw("first", MIN_BATCH_QTY, 5, 1, TRUE, 1, RETURN_QTY_PERCENT_MIN, 1, -3),
      SupDraw("last", MAX_BATCH_QTY, 30, 2, TRUE, 2, RETURN_QTY_PERCENT_MAX, 5, 7),
      SupDraw("first", MAX_BATCH_QTY, 5, 1, FALSE, 1, RETURN_QTY_PERCENT_MIN, 1, 7),
      SupDraw("last", MIN_BATCH_QTY, 30, 2, FALSE, 1, RETURN_QTY_PERCENT_MIN, 1, -3),
      SupDraw("first", 105, 17, 2, TRUE, 1, 30, 3, 0) }

InitSup ==
    /\ current_date = START_DATE
    /\ \E followed \in SupFollowedSets :
          /\ next_restock_date \in [followed -> {START_DATE + k : k \in Ends(0, 14)}]
          /\ received = [j \in followed |-> << >>]
    /\ sup_pos = 1
    /\ batch_id = 1
    /\ return_id = 1
    /\ batch = NoRow
    /\ return_record = NoRow
    /\ IdlePrices
    /\ IdleV3
    /\ IdleEvents
    /\ IdleV2
    /\ IdleStats

\* a pass of "for product in PRODUCTS" that ends at the "continue"
SkipProduct ==
    /\ current_date <= SupLastDate
    /\ sup_pos \in 1..Len(SupFollowed)
    /\ ~restock_due(current_date, next_restock_date[SupFollowed[sup_pos]])
    /\ sup_pos' = sup_pos + 1
    /\ UNCHANGED <<current_date, next_restock_date, batch_id, return_id, received, batch,
                   return_record, row_prev, row_cur, batch_cost, v3vars, eventvars, v2vars, statvars>>

\* a pass of "for product in PRODUCTS" that receives a batch, for the draws d
RestockProduct(d) ==
    /\ current_date <= SupLastDate
    /\ sup_pos \in 1..Len(SupFollowed)
    /\ LET j == SupFollowed[sup_pos]
           category == SUP_PRODUCTS[j].category
           choices == supplier_choices(category)
           supplier_id == IF d.pick = "first" THEN choices[1] ELSE choices[Len(choices)]
           base_qty == batch_quantity(category, MonthOf(current_date), d.base_qty, d.case_qty)
           expiry_days == expiry_days_range(category)[d.expiry]
           new_batch == InventoryBatch(batch_id, j, base_qty, current_date + expiry_days,
                                       current_date, supplier_id)
           return_delay_days == IF d.delay = 1 THEN 30 ELSE max_delay(expiry_days)
           return_date == current_date + return_delay_days
       IN  /\ restock_due(current_date, next_restock_date[j])
           /\ batch' = new_batch
           /\ received' = [received EXCEPT ![j] = Append(@, current_date)]
           /\ IF d.returned /\ return_date <= SupEndDate
              THEN /\ return_record' = StockMovementReturn(return_id, new_batch,
                                           return_qty(base_qty, d.pct), d.reason, return_date)
                   /\ return_id' = return_id + 1
              ELSE UNCHANGED <<return_record, return_id>>
           /\ batch_id' = batch_id + 1
           /\ next_restock_date' =
                 [next_restock_date EXCEPT ![j] = current_date + AVG_RESTOCK_FREQUENCY_DAYS
                                                     + d.variance]
    /\ sup_pos' = sup_pos + 1
    /\ UNCHANGED <<current_date, row_prev, row_cur, batch_cost, v3vars, eventvars, v2vars, statvars>>

\* "current_date += timedelta(days=1)" after the loop over the products
SupNextDay ==
    /\ current_date <= SupLastDate
    /\ sup_pos = Len(SupFollowed) + 1
    /\ current_date' = current_date + 1
    /\ sup_pos' = 1
    /\ UNCHANGED <<next_restock_date, batch_id, return_id, received, batch, return_record,
                   row_prev, row_cur, batch_cost, v3vars, eventvars, v2vars, statvars>>

NextSup ==
    \/ SkipProduct
    \/ \E d \in SupDrawSet : RestockProduct(d)
    \/ SupNextDay

SpecSup == InitSup /\ [][NextSup]_vars

-----------------------------------------------------------------------------
(* print_summary_stats of generate_history_v3 and generate_history_v2 *)

\* a / b of Python: the quotient as <<a, b>>, defined when b # 0
Quotient(a, b) == <<a, b>>

\* [s for s in xs if s["date"][:4] == year]
year_sales_of(xs, year) == SelectSeq(xs, LAMBDA s : YearOf(s.date) = year)

\* set(s["transaction_id"] for s in xs)
transaction_ids(xs) == {xs[k].transaction_id : k \in 1..Len(xs)}

\* the line of the year-over-year table for a year; every division of the
\* loop body is behind a test of its divisor
year_line(xs, year, prev_revenue) ==
    LET year_sales == year_sales_of(xs, year)
        revenue == SumOf(year_sales, "subtotal")
        profit == SumOf(year_sales, "profit")
        unique_tx == Cardinality(transaction_ids(year_sales))
    IN  [year |-> year,
         revenue |-> revenue,
         cost |-> SumOf(year_sales, "cost_total"),
         profit |-> profit,
         margin |-> IF revenue > 0 THEN Quotient(profit * 100, revenue) ELSE <<0, 1>>,
         avg_tx |-> IF unique_tx > 0 THEN Quotient(revenue, unique_tx) ELSE <<0, 1>>,
         growth |-> IF prev_revenue # 0
                    THEN Quotient((revenue - prev_revenue) * 100, prev_revenue)
                    ELSE <<0, 1>>]

\* the line of the breakdown for a customer profile, every division guarded
profile_line(xs, prof, total_transactions, total_revenue) ==
    LET mine == SelectSeq(xs, LAMBDA s : s.customer_type = prof)
        tx_count == Cardinality(transaction_ids(mine))
        rev == SumOf(mine, "subtotal")
    IN  [profile |-> prof,
         tx_pct |-> IF total_transactions > 0
                    THEN Quotient(tx_count * 100, total_transactions) ELSE <<0, 1>>,
         rev_pct |-> IF total_revenue > 0 THEN Quotient(rev * 100, total_revenue) ELSE <<0, 1>>,
         avg_ticket |-> IF tx_count > 0 THEN Quotient(rev, tx_count) ELSE <<0, 1>>]

\* the exception that ended a call, with the line that raised it
Raised(error, line) == [error |-> error, line |-> line]

\* the summary of a call that returned
Printed(lines) == [error |-> "", line |-> 0, printed |-> lines]

\* print_summary_stats(sales) of generate_history_v3: the statements in order,
\* the first that raises ends the call
print_summary_stats(xs) ==
    LET total_revenue == SumOf(xs, "subtotal")
        total_profit == SumOf(xs, "profit")
        total_transactions == Cardinality(transaction_ids(xs))
        event_sales == SelectSeq(xs, LAMBDA s : s.is_event)
        organic_sales == SelectSeq(xs, LAMBDA s : ~s.is_event)
        year_list == SelectSeq(years(EndYear + 1),
                               LAMBDA y : year_sales_of(xs, y) # << >>)
        prev(k) == IF k = 1 THEN 0
                   ELSE SumOf(year_sales_of(xs, year_list[k - 1]), "subtotal")
    IN  IF total_revenue = 0 THEN Raised("ZeroDivisionError", 876)
        ELSE IF total_transactions = 0 THEN Raised("ZeroDivisionError", 877)
        ELSE IF xs = << >> THEN Raised("IndexError", 899)
        ELSE IF Len(xs) = 0 THEN Raised("ZeroDivisionError", 910)
        ELSE IF event_sales # << >> /\ total_revenue = 0 THEN Raised("ZeroDivisionError", 915)
        ELSE Printed(
               [by_year |-> [k \in 1..Len(year_list) |-> year_line(xs, year_list[k], prev(k))],
                average_margin |-> Quotient(total_profit * 100, total_revenue),
                average_transaction |-> Quotient(total_revenue, total_transactions),
                profiles |-> [prof \in ProfileNames |->
                                 profile_line(xs, prof, total_transactions, total_revenue)],
                last_factor |-> get_inflation_factor(xs[Len(xs)].date),
                event_share |-> Quotient(Len(event_sales) * 100, Len(xs)),
                organic_share |-> Quotient(Len(organic_sales) * 100, Len(xs)),
                event_revenue_share |->
                    IF event_sales # << >>
                    THEN Quotient(SumOf(event_sales, "subtotal") * 100, total_revenue)
                    ELSE <<0, 1>>])

\* print_summary_stats(sales) of generate_history_v2
v2_print_summary_stats(xs) ==
    LET total_revenue == SumOf(xs, "subtotal")
        total_profit == SumOf(xs, "profit")
        event_sales == SelectSeq(xs, LAMBDA s : s.is_event)
        organic_sales == SelectSeq(xs, LAMBDA s : ~s.is_event)
    IN  IF total_revenue = 0 THEN Raised("ZeroDivisionError", 519)
        ELSE IF Len(xs) = 0 THEN Raised("ZeroDivisionError", 525)
        ELSE IF event_sales # << >> /\ total_revenue = 0 THEN Raised("ZeroDivisionError", 530)
        ELSE Printed(
               [profit_margin |-> Quotient(total_profit * 100, total_revenue),
                event_share |-> Quotient(Len(event_sales) * 100, Len(xs)),
                organic_share |-> Quotient(Len(organic_sales) * 100, Len(xs)),
                event_revenue_share |->
                    IF event_sales # << >>
                    THEN Quotient(SumOf(event_sales, "subtotal") * 100, total_revenue)
                    ELSE <<0, 1>>,
                event_sources |-> {xs[k].event_source : k \in {n \in 1..Len(xs) :
                                                                  xs[n].event_source # ""}}])

\* a sales row as print_summary_stats reads it
StatRow(date, tx, prof, qty, subtotal, cost_total, is_event, source) ==
    [date |-> date, transaction_id |-> <<"TX", date, tx>>, customer_type |-> prof,
     quantity |-> qty, subtotal |-> subtotal, cost_total |-> cost_total,
     profit |-> subtotal - cost_total, is_event |-> is_event, event_source |-> source]

\* rows the lists passed to print_summary_stats are built from: rows of two
\* years, of one transaction and of several, with and without an event, and
\* rows without revenue
StatRows ==
    << StatRow(datetime(2024, 1, 1), 1, "SNACKER", 1, 2000, 1800, TRUE, "HOLIDAY"),
       StatRow(datetime(2024, 1, 1), 1, "SNACKER", 1, 1250, 1000, TRUE, "HOLIDAY"),
       StatRow(datetime(2024, 2, 10), 1, "HOUSEHOLD", 2, 132000, 119000, FALSE, ""),
       StatRow(datetime(2024, 2, 10), 2, "VENDOR", 3, 37500, 33600, FALSE, ""),
       StatRow(datetime(2025, 12, 25), 1, "SNACKER", 1, 2175, 1958, TRUE, "MANUFACTURER_CAMPAIGN"),
       StatRow(datetime(2025, 12, 25), 2, "HOUSEHOLD", 1, 23490, 19575, TRUE, "STORE_DISCOUNT"),
       StatRow(datetime(2024, 1, 1), 2, "SNACKER", 0, 0, 0, FALSE, ""),
       StatRow(datetime(2025, 1, 1), 1, "VENDOR", 0, 0, 0, TRUE, "HOLIDAY") >>

\* the lists of at most MaxSales of the first NumStatRows rows of StatRows
SalesLists ==
    UNION {[1..n -> {StatRows[k] : k \in 1..Min(NumStatRows, Len(StatRows))}] : n \in 0..MaxSales}

InitStats ==
    /\ current_date = START_DATE
    /\ sales \in SalesLists
    /\ summary = NoRow
    /\ IdlePrices
    /\ IdleV3
    /\ IdleEvents
    /\ IdleV2
    /\ IdleSup

\* print_summary_stats(sales) of generate_history_v3
PrintSummaryStats ==
    /\ summary = NoRow
    /\ summary' = [script |-> "generate_history_v3"] @@ print_summary_stats(sales)
    /\ UNCHANGED <<current_date, sales, row_prev, row_cur, batch_cost, v3vars, eventvars,
                   v2vars, supvars>>

\* print_summary_stats(sales) of generate_history_v2
PrintSummaryStatsV2 ==
    /\ summary = NoRow
    /\ summary' = [script |-> "generate_history_v2"] @@ v2_print_summary_stats(sales)
    /\ UNCHANGED <<current_date, sales, row_prev, row_cur, batch_cost, v3vars, eventvars,
                   v2vars, supvars>>

NextStats ==
    \/ PrintSummaryStats
    \/ PrintSummaryStatsV2

SpecStats == InitStats /\ [][NextStats]_vars

-----------------------------------------------------------------------------
(* Properties of generate_history_v3's transactions (SpecV3) *)

NeverSellBarcodes == {PRODUCTS[i].barcode : i \in {j \in ProductIdx : PRODUCTS[j].never_sell}}

\* C1: no line item that get_products_for_profile returns, and no row that
\* generate_daily_transactions emits, carries the barcode of a product whose
\* never_sell flag is true, whatever the date, the profile and the draws.
C1_NeverSellNotSold ==
    /\ \A k \in 1..Len(selected_items) : selected_items[k].barcode \notin NeverSellBarcodes
    /\ \A k \in 1..Len(rows) : rows[k].barcode \notin NeverSellBarcodes

\* a transaction of two rows was emitted while random.choice could have
\* returned a never_sell product of the catalog
C1_Witness ==
    /\ \E i \in DrawnIdx : PRODUCTS[i].never_sell
    /\ Len(rows) >= 2

\* the price tier get_products_for_profile puts a retail price in
price_tier(retail) ==
    IF retail <= 3000 THEN "cheap" ELSE IF retail <= 8000 THEN "mid" ELSE "expensive"

\* C3: for every profile, a hero_boost product has hero_boost times as many
\* copies in the final selection_pool as a non-hero retail product of the same
\* price tier.
C3_HeroBoostTimesCopies ==
    pc = "select" =>
        LET pool == selection_pool(profile, current_date)
        IN  \A h \in ProductIdx : \A p \in ProductIdx :
                (/\ InList(product_pool, h) /\ InList(product_pool, p)
                 /\ PRODUCTS[h].hero_boost > 1 /\ PRODUCTS[p].hero_boost = 1
                 /\ price_tier(retail_price(h, current_date))
                        = price_tier(retail_price(p, current_date)))
                => Copies(pool, h) = PRODUCTS[h].hero_boost * Copies(pool, p)

\* C6: the transaction total is the sum of the subtotals of its rows, and in
\* every line item and row subtotal = unit_price * quantity (also when the
\* quantity was reduced to fit the budget), cost_total = cost_price * quantity
\* and profit = subtotal - cost_total.
C6_TotalsAndSubtotals ==
    /\ \A k \in 1..Len(selected_items) :
          /\ selected_items[k].subtotal
                = selected_items[k].retail_price * selected_items[k].quantity
          /\ selected_items[k].cost_total
                = selected_items[k].cost_price * selected_items[k].quantity
    /\ rows # << >> =>
          /\ tx_total = SumOf(rows, "subtotal")
          /\ tx_cost = SumOf(rows, "cost_total")
          /\ \A k \in 1..Len(rows) :
                /\ rows[k].subtotal = rows[k].unit_price * rows[k].quantity
                /\ rows[k].cost_total = rows[k].cost_price * rows[k].quantity
                /\ rows[k].profit = rows[k].subtotal - rows[k].cost_total

\* a transaction was emitted whose last item had its quantity reduced to fit
\* the budget
C6_Witness ==
    /\ Len(rows) >= 2
    /\ last_pass.kind = "append" /\ last_pass.fitted
    /\ rows[Len(rows)].quantity < last_pass.qty

\* the retail products that share the price tier and the hero_boost of
\* product i and that no campaign or promo covers on the date
event_free_peers(i, date, cmps, prms) ==
    {j \in ProductIdx :
        /\ InList(product_pool, j)
        /\ PRODUCTS[j].hero_boost = PRODUCTS[i].hero_boost
        /\ price_tier(retail_price(j, date)) = price_tier(retail_price(i, date))
        /\ ~is_within_campaign(date, cmps, PRODUCTS[j].brand).found
        /\ ~is_within_store_promo(date, prms, PRODUCTS[j].barcode).found}

\* C9: while a campaign or a promo is active for a product on a date, its
\* multiplier scales the demand generated for the product, for every profile:
\* the quantity of its line item is the drawn quantity times the multiplier,
\* or its copies in the selection pool are the multiplier times those of a
\* comparable product without an event.
C9_EventMultiplierScalesDemand ==
    (last_pass.kind = "append" /\ ~last_pass.fitted /\ ~PRODUCTS[last_pass.idx].wholesale_only) =>
        LET i == last_pass.idx
            item == selected_items[Len(selected_items)]
            pool == selection_pool(profile, current_date)
            c == is_within_campaign(current_date, all_campaigns, PRODUCTS[i].brand)
            p == is_within_store_promo(current_date, all_promos, PRODUCTS[i].barcode)
            peers == event_free_peers(i, current_date, all_campaigns, all_promos)
            Scaled(m) ==
                \/ item.quantity * 100 = last_pass.qty * m
                \/ /\ peers # {}
                   /\ \A j \in peers : Copies(pool, i) * 100 = Copies(pool, j) * m
        IN  /\ c.found => Scaled(all_campaigns[c.at].multiplier)
            /\ p.found => Scaled(all_promos[p.at].multiplier)

\* C10: in April and May a row of a BEVERAGES, SODA or SOFTDRINKS_CASE product
\* is generated under the 1.4 summer multiplier, and a row of another category
\* is not.
C10_SummerCategoriesBoosted ==
    \A k \in 1..Len(rows) :
        MonthOf(rows[k].date) \in {4, 5} =>
            (rows[k].category \in {"BEVERAGES", "SODA", "SOFTDRINKS_CASE"}
                <=> seasonality = 28)

\* C11: the day's transaction count is max(50, floor(110 * seasonality *
\* day_of_week * holiday * payday * noise)) for a noise in [0.85, 1.15], the
\* holiday factor being the multiplier of the first holiday whose period
\* holds the date, or 1.0; the count is never below 50.
C11_DailyTransactionCount ==
    pc \in {"tx", "select", "emit"} =>
        LET hits == {k \in 1..Len(all_holidays) :
                        /\ all_holidays[k].date <= current_date
                        /\ current_date <= all_holidays[k].date
                                               + all_holidays[k].duration_days}
            holiday == IF hits = {} THEN 10
                       ELSE all_holidays[CHOOSE k \in hits : \A j \in hits : k <= j].multiplier
            product == 110 * get_seasonality_multiplier(current_date, "")
                           * get_day_of_week_multiplier(current_date)
                           * holiday * get_payday_multiplier(current_date)
            scale == 20 * 20 * 10 * 5 * 100
        IN  /\ target_transactions >= 50
            /\ \E noise \in 85..115 :
                  \/ /\ target_transactions * scale <= product * noise
                     /\ product * noise < (target_transactions + 1) * scale
                  \/ /\ target_transactions = 50
                     /\ product * noise < 50 * scale

\* a count was computed for a date that lies in a holiday period
C11_Witness ==
    /\ pc = "tx"
    /\ is_within_holiday(current_date, all_holidays).found
    /\ target_transactions > 50

\* C12: for every profile, date and sequence of draws, the item totals of the
\* basket get_products_for_profile builds sum to no more than the profile's
\* upper ticket bound times the inflation factor of the date.
C12_BasketWithinTarget ==
    profile \in ProfileNames =>
        \* centavos against pesos * num / INFLATION_DEN, both sides divided by 50
        SumOf(selected_items, "subtotal") * (INFLATION_DEN \div 50)
            <= CUSTOMER_PROFILES[profile].ticket_range[2] * 2
                  * get_inflation_factor(current_date).num

\* C13: a wholesale_only product (category SOFTDRINKS_CASE) is selected for
\* the VENDOR profile only: no line item of a SNACKER or HOUSEHOLD basket and
\* no row of a SNACKER or HOUSEHOLD transaction is wholesale_only, on any date.
C13_WholesaleOnlyForVendor ==
    /\ \A k \in 1..Len(selected_items) :
          (selected_items[k].wholesale_only
             \/ selected_items[k].category = "SOFTDRINKS_CASE") => profile = "VENDOR"
    /\ \A k \in 1..Len(rows) :
          rows[k].category = "SOFTDRINKS_CASE" => rows[k].customer_type = "VENDOR"

\* a HOUSEHOLD transaction was emitted on a date for which random.choice
\* returns a wholesale_only product to a VENDOR
C13_Witness ==
    /\ Len(rows) >= 1
    /\ rows[1].customer_type = "HOUSEHOLD"
    /\ \E i \in DrawableAt["VENDOR", current_date] : PRODUCTS[i].wholesale_only

-----------------------------------------------------------------------------
(* Properties of generate_history_v3's events (SpecEvents) *)

\* C2: no StorePromo that generate_store_promos produces has the barcode of a
\* never_sell product in product_barcodes, and export_events_csv writes no
\* such barcode into affected_barcodes.
C2_NeverSellNotInEvents ==
    /\ \A k \in 1..Len(all_promos) :
          \A n \in 1..Len(all_promos[k].product_barcodes) :
              all_promos[k].product_barcodes[n] \notin NeverSellBarcodes
    /\ \A k \in 1..Len(events_log) :
          \A n \in 1..Len(events_log[k].affected_barcodes) :
              events_log[k].affected_barcodes[n] \notin NeverSellBarcodes

\* C18: every brand campaign lasts exactly one week: is_within_campaign
\* reports a campaign that generate_brand_campaigns produced active on exactly
\* 7 consecutive calendar dates.
C18_CampaignLastsOneWeek ==
    \A k \in 1..Len(all_campaigns) :
        LET c == all_campaigns[k]
            active == {date \in (c.start_date - 2)..(c.end_date + 2) :
                          is_within_campaign(date, <<c>>, c.brand).found}
        IN  /\ Cardinality(active) = 7
            /\ active = c.start_date..(c.start_date + 6)

\* C22: a Holiday with duration_days = d is reported active by
\* is_within_holiday, of generate_history_v3 and of generate_history_v2, on
\* exactly d consecutive calendar dates starting at its date; a holiday of one
\* day is active on one date.
C22_HolidayLastsDurationDays ==
    \A k \in 1..Len(all_holidays) :
        LET h == all_holidays[k]
            window == (h.date - 2)..(h.date + h.duration_days + 2)
            active == {date \in window : is_within_holiday(date, <<h>>).found}
            v2_active == {date \in window : v2_is_within_holiday(date, <<h>>).found}
        IN  /\ Cardinality(active) = h.duration_days
            /\ active = h.date..(h.date + h.duration_days - 1)
            /\ v2_active = active

\* C23: on the start date of every holiday of the concatenated list, the
\* holiday that is_within_holiday applies (one holiday, the one whose name and
\* multiplier the day takes) is that holiday itself: Christmas Day (1.8) on
\* December 25 and New Year's Day (1.6) on January 1, whatever the order of
\* the list.
C23_HolidayOfItsOwnDate ==
    \A k \in 1..Len(all_holidays) :
        LET h == all_holidays[k]
            applied == is_within_holiday(h.date, all_holidays)
        IN  /\ applied.found
            /\ all_holidays[applied.at].name = h.name
            /\ all_holidays[applied.at].multiplier = h.multiplier
            /\ h.name = "Christmas Day" => all_holidays[applied.at].multiplier = 18
            /\ h.name = "New Year's Day" => all_holidays[applied.at].multiplier = 16

-----------------------------------------------------------------------------
(* Properties of generate_suppliers' batches and returns (SpecSup) *)

\* C14: each product is restocked on its own schedule: its first batch is
\* received within 14 days of START_DATE, it receives at most one batch per
\* day, and two consecutive batches of a product lie
\* AVG_RESTOCK_FREQUENCY_DAYS plus a variance in [-3, 7] apart, 11 to 21 days.
C14_RestockSchedule ==
    /\ \A j \in DOMAIN received :
          /\ received[j] # << >> => received[j][1] \in START_DATE..(START_DATE + 14)
          /\ current_date > START_DATE + 14 => received[j] # << >>
          /\ \A k \in 1..(Len(received[j]) - 1) :
                /\ received[j][k + 1] # received[j][k]
                /\ received[j][k + 1] - received[j][k]
                      \in (AVG_RESTOCK_FREQUENCY_DAYS - 3)..(AVG_RESTOCK_FREQUENCY_DAYS + 7)
                /\ received[j][k + 1] - received[j][k] \in 11..21
    /\ batch # NoRow =>
          \E j \in DOMAIN received :
              /\ SUP_PRODUCTS[j].barcode = batch.product_barcode
              /\ received[j][Len(received[j])] = batch.received_date

\* a product has received a first batch later than START_DATE and a second one
C14_Witness ==
    \E j \in DOMAIN received :
        /\ Len(received[j]) >= 2
        /\ received[j][1] > START_DATE

\* C15: every InventoryBatch has a quantity between MIN_BATCH_QTY (10) and
\* MAX_BATCH_QTY (200) inclusive, for every category and every month.
C15_BatchQuantityInRange ==
    batch # NoRow => batch.quantity \in MIN_BATCH_QTY..MAX_BATCH_QTY

\* C16: every InventoryBatch has an expiry_date between EXPIRY_DAYS_MIN (30)
\* and EXPIRY_DAYS_MAX (365) days after its received_date, for every category.
C16_ExpiryInRange ==
    batch # NoRow =>
        batch.expiry_date - batch.received_date \in EXPIRY_DAYS_MIN..EXPIRY_DAYS_MAX

\* C17: every StockMovementReturn has a negative quantity_change whose
\* magnitude is at least 1, lies between 10% and 50% of the quantity of the
\* batch it returns, and does not exceed that quantity.
C17_ReturnQuantity ==
    (return_record # NoRow /\ batch # NoRow /\ return_record.batch_id = batch.id) =>
        LET magnitude == 0 - return_record.quantity_change
        IN  /\ return_record.quantity_change < 0
            /\ magnitude >= 1
            /\ magnitude * 100 >= RETURN_QTY_PERCENT_MIN * batch.quantity
            /\ magnitude * 100 <= RETURN_QTY_PERCENT_MAX * batch.quantity
            /\ magnitude <= batch.quantity

\* C25: every StockMovementReturn is made in the pass that appends its batch
\* to the batch list: its batch_id is that batch's id, it carries the batch's
\* product_barcode, supplier_id, supplier_name and cost_price, and its
\* reference is "RET-" followed by the batch's supplier_ref; the returns made
\* one after the other refer to batches of increasing id, so no batch has
\* more than one return.
C25_ReturnMatchesBatch ==
    [][return_record' # return_record =>
          /\ batch' # batch
          /\ batch'.id = batch_id
          /\ batch_id' = batch_id + 1
          /\ return_record'.id = return_id
          /\ return_id' = return_id + 1
          /\ return_record'.batch_id = batch'.id
          /\ return_record'.product_barcode = batch'.product_barcode
          /\ return_record'.supplier_id = batch'.supplier_id
          /\ return_record'.supplier_name = batch'.supplier_name
          /\ return_record'.cost_price = batch'.cost_price
          /\ return_record'.reference = <<"RET-", batch'.supplier_ref>>
          /\ return_record # NoRow => return_record.batch_id < return_record'.batch_id
      ]_vars

\* a second return was made, for a batch received at an inflated cost, and a
\* batch without a return was received after it
C25_Witness ==
    /\ return_record # NoRow /\ batch # NoRow
    /\ return_record.id >= 2
    /\ return_record.batch_id < batch.id
    /\ return_record.created_at > START_DATE + 30

-----------------------------------------------------------------------------
(* Properties of print_summary_stats (SpecStats) *)

\* C19: the summary statistics never divide by zero: every division by the
\* revenue, the number of transactions or the number of rows is guarded, so
\* print_summary_stats completes without error for any list of sales rows,
\* an empty list and a list of total revenue 0 included.
C19_SummaryNeverDividesByZero ==
    summary # NoRow => summary.error = ""

-----------------------------------------------------------------------------
(* Properties of generate_history_v2's sales (SpecV2) *)

matched_multiplier(events, hits) ==
    IF hits = {} THEN 10
    ELSE events[CHOOSE k \in hits : \A j \in hits : k <= j].multiplier

\* C8: total_multiplier is seasonality * day-of-week * the matched campaign's
\* multiplier * the matched promo's multiplier * the matched holiday's
\* multiplier, the three kinds of event stacking; quantity is
\* floor(base_velocity * total_multiplier) plus the noise in [-2, 2], not below
\* 1, so every row has quantity >= 1.
C8_MultiplierStack ==
    sale # NoRow =>
        LET campaign_hits ==
                {k \in 1..Len(all_campaigns) :
                    /\ all_campaigns[k].brand = sale.brand
                    /\ all_campaigns[k].start_date <= sale.date
                    /\ sale.date <= all_campaigns[k].end_date}
            promo_hits ==
                {k \in 1..Len(all_promos) :
                    /\ \E n \in 1..Len(all_promos[k].product_barcodes) :
                          all_promos[k].product_barcodes[n] = sale.barcode
                    /\ all_promos[k].start_date <= sale.date
                    /\ sale.date <= all_promos[k].end_date}
            holiday_hits ==
                {k \in 1..Len(all_holidays) :
                    /\ all_holidays[k].date <= sale.date
                    /\ sale.date <= all_holidays[k].date + all_holidays[k].duration_days}
            total == v2_get_seasonality_multiplier(sale.date, sale.category)
                       * v2_get_day_of_week_multiplier(sale.date)
                       * matched_multiplier(all_campaigns, campaign_hits)
                       * matched_multiplier(all_promos, promo_hits)
                       * matched_multiplier(all_holidays, holiday_hits)
        IN  /\ sale.multiplier = total
            /\ sale.noise \in -2..2
            /\ sale.quantity
                  = Max(1, (sale.base_velocity * total) \div MULTIPLIER_ONE + sale.noise)
            /\ sale.quantity >= 1

\* a row of a product under a campaign, a promo and a holiday at once
C8_Witness ==
    /\ sale # NoRow
    /\ sale.in_campaign /\ sale.in_promo /\ sale.in_holiday
    /\ sale.multiplier > 4 * MULTIPLIER_ONE

\* C21: a row of a product that is under a brand campaign and under a store
\* promo on its date records the store promo: event_source is STORE_DISCOUNT
\* and event_name is the name of the promo that is_within_store_promo returns.
C21_StorePromoPreferred ==
    (sale # NoRow /\ sale.in_campaign /\ sale.in_promo) =>
        LET p == v2_is_within_store_promo(sale.date, all_promos, sale.barcode)
        IN  /\ sale.event_source = "STORE_DISCOUNT"
            /\ sale.event_name = all_promos[p.at].name

\* every element of the list `part` is an element of the list `whole`
ListIncludes(whole, part) == \A n \in 1..Len(part) : InList(whole, part[n])

====
